---------------------------- MODULE Spec2Model ----------------------------
(***************************************************************************)
(* A model of the units-of-measure engine of src/src/units.js: the unit    *)
(* tables (Base, Derived1..Derived4, Units), the Term constructor and the  *)
(* Term methods, with the component arrays kept in a heap so that sharing  *)
(* of an array between Terms and in-place updates are visible.             *)
(*                                                                         *)
(* Numbers.  A JavaScript number is modelled as an extended rational       *)
(* <<n, d>> in lowest terms with d >= 0: d > 0 is the finite value n/d,    *)
(* <<1,0>> is Infinity, <<-1,0>> is -Infinity and <<0,0>> is NaN.          *)
(* Arithmetic is exact: the rounding of IEEE-754 doubles is outside the    *)
(* model (equalities between values are the spec's "within floating-point  *)
(* tolerance"), and so is the sign of zero.  A decimal literal of the      *)
(* source (0.01, 273.15) stands for its decimal value.  A JavaScript value  *)
(* that is not a number is a pair with a negative second component.        *)
(***************************************************************************)
EXTENDS Integers, Sequences, FiniteSets, TLC

VARIABLES
  units,   \* the registry: unit name -> unit object (Units, units.js:489-495)
  heap,    \* the component arrays: array id -> [live, elems]
  terms,   \* the caller's variables: slot -> Term object (or NoTerm)
  origin,  \* history: how the Term in a slot was constructed (Terms.U(v))
  out,     \* history: the last operation, its operands and its outcome
  pc       \* position in the calling script

vars == <<units, heap, terms, origin, out, pc>>

(***************************************************************************)
(* Bounds of the model.                                                    *)
(***************************************************************************)
MaxNum == 2     \* input values have numerators in -MaxNum..MaxNum
MaxDen == 2     \* and denominators in 1..MaxDen
MaxSmall == 1   \* numerators of the inputs of the two- and three-operand scripts
MaxArr == 70    \* size of the heap (array ids 1..MaxArr)
NumCap == 1000000000  \* numerators and denominators of the model's numbers

(***************************************************************************)
(* JavaScript numbers.                                                     *)
(***************************************************************************)
NaN == <<0, 0>>
PosInf == <<1, 0>>
NegInf == <<-1, 0>>
Zero == <<0, 1>>
One == <<1, 1>>

AbsInt(n) == IF n < 0 THEN -n ELSE n
SignInt(n) == IF n < 0 THEN -1 ELSE IF n > 0 THEN 1 ELSE 0

RECURSIVE GCD(_, _)
GCD(a, b) == IF b = 0 THEN a ELSE GCD(b, a % b)

\* The number n/d (d >= 0) in lowest terms.
Rat(n, d) ==
  IF d = 0 THEN <<SignInt(n), 0>>
  ELSE LET g == GCD(AbsInt(n), d) IN <<n \div g, d \div g>>

Int2Num(n) == <<n, 1>>
Undefined == <<0, -1>>    \* the value undefined
AString == <<0, -2>>      \* a string
\* typeof x == "number"
TypeofNumber(x) == x[2] >= 0
IsNaN(x) == x = NaN
IsFinite(x) == x[2] > 0

\* JavaScript truthiness of a number (or of an absent field, modelled as 0):
\* 0, NaN and undefined are falsy.
Truthy(x) == x[1] # 0

NumNeg(x) == <<-x[1], x[2]>>
\* x * y, reduced crosswise before multiplying
NumMul(x, y) ==
  IF x[2] = 0 \/ y[2] = 0 \/ x[1] = 0 \/ y[1] = 0
  THEN <<SignInt(x[1]) * SignInt(y[1]), SignInt(x[2] * y[2])>>
  ELSE LET g1 == GCD(AbsInt(x[1]), y[2])
           g2 == GCD(AbsInt(y[1]), x[2])
       IN <<(x[1] \div g1) * (y[1] \div g2), (x[2] \div g2) * (y[2] \div g1)>>
NumRecip(x) == IF x[1] < 0 THEN Rat(-x[2], -x[1]) ELSE Rat(x[2], x[1])
NumDiv(x, y) == NumMul(x, NumRecip(y))
NumAdd(x, y) ==
  IF IsNaN(x) \/ IsNaN(y) THEN NaN
  ELSE IF x[2] = 0 /\ y[2] = 0 THEN (IF x = y THEN x ELSE NaN)
  ELSE IF x[2] = 0 THEN x
  ELSE IF y[2] = 0 THEN y
  ELSE LET g == GCD(x[2], y[2])     \* over the least common denominator
       IN Rat(x[1] * (y[2] \div g) + y[1] * (x[2] \div g), (x[2] \div g) * y[2])
NumLess(x, y) ==
  IF IsNaN(x) \/ IsNaN(y) THEN FALSE
  ELSE IF x[2] = 0 /\ y[2] = 0 THEN x[1] < y[1]
  ELSE LET g == GCD(x[2], y[2])
       IN x[1] * (y[2] \div g) < y[1] * (x[2] \div g)

\* Math.pow(x, p) for an integer p.
RECURSIVE NumPow(_, _)
NumPow(x, p) ==
  IF p = 0 THEN One
  ELSE IF p < 0 THEN NumRecip(NumPow(x, -p))
  ELSE NumMul(x, NumPow(x, p - 1))

\* Products and sums whose numerator and denominator stay within NumCap;
\* the callers' scripts make only calls whose numbers do.
ProductFits(a, b) ==
  IF a = 0 \/ b = 0 THEN TRUE ELSE AbsInt(a) <= NumCap \div AbsInt(b)
MulFits(x, y) ==
  IF x[2] = 0 \/ y[2] = 0 \/ x[1] = 0 \/ y[1] = 0 THEN TRUE
  ELSE LET g1 == GCD(AbsInt(x[1]), y[2])
           g2 == GCD(AbsInt(y[1]), x[2])
       IN /\ ProductFits(x[1] \div g1, y[1] \div g2)
          /\ ProductFits(x[2] \div g2, y[2] \div g1)
AddFits(x, y) ==
  /\ ProductFits(2 * x[1], y[2])
  /\ ProductFits(2 * y[1], x[2])
  /\ ProductFits(x[2], y[2])

RECURSIVE ISqrtIn(_, _, _)
\* the largest r in lo..hi with r * r <= n, by bisection
ISqrtIn(n, lo, hi) ==
  IF lo >= hi THEN lo
  ELSE LET mid == (lo + hi + 1) \div 2
       IN IF mid * mid <= n THEN ISqrtIn(n, mid, hi) ELSE ISqrtIn(n, lo, mid - 1)
ISqrt(n) == ISqrtIn(n, 0, IF n < 40000 THEN n ELSE 40000)
IsSquare(n) == ISqrt(n) * ISqrt(n) = n
\* Math.sqrt(x) has a value in the model's numbers: NaN, an infinity, a
\* negative number, or a ratio of squares.
SqrtRepresentable(x) ==
  IF x[2] = 0 \/ x[1] < 0 THEN TRUE ELSE IsSquare(x[1]) /\ IsSquare(x[2])
NumSqrt(x) ==
  IF IsNaN(x) \/ x[1] < 0 THEN NaN
  ELSE IF x[2] = 0 THEN PosInf
  ELSE <<ISqrt(x[1]), ISqrt(x[2])>>

\* Math.log(x) has a value in the model's numbers: x is 0, 1, Infinity, NaN
\* or negative.
LogRepresentable(x) ==
  IF x[2] = 0 \/ x[1] <= 0 THEN TRUE ELSE x = One
NumLog(x) ==
  IF IsNaN(x) \/ x[1] < 0 THEN NaN
  ELSE IF x[2] = 0 THEN PosInf
  ELSE IF x[1] = 0 THEN NegInf
  ELSE Zero

\* Math.abs(x)
NumAbs(x) == <<AbsInt(x[1]), x[2]>>

\* Math.pow(10, x) has a value in the model's numbers: x is a small integer,
\* an infinity or NaN.
MaxExp == 4
Pow10Representable(x) ==
  IF x[2] = 0 THEN TRUE ELSE x[2] = 1 /\ AbsInt(x[1]) <= MaxExp
NumPow10(x) ==
  IF IsNaN(x) THEN NaN
  ELSE IF x = PosInf THEN PosInf
  ELSE IF x = NegInf THEN Zero
  ELSE NumPow(<<10, 1>>, x[1])

\* The % of JavaScript on integers: the sign follows the dividend.
JsRem(a, b) == IF a >= 0 THEN a % b ELSE -((-a) % b)

(***************************************************************************)
(* The unit tables.  A unit object has the fields components, scale and    *)
(* offset; an absent scale or offset is Zero (the code only tests them for *)
(* truthiness), an absent power is 0 (the code reads it as `power || 1`    *)
(* and `!power`), and a base unit has no components (derived = FALSE).     *)
(***************************************************************************)
BaseUnit == [derived |-> FALSE, components |-> <<>>, scale |-> Zero, offset |-> Zero]
C(u, p) == [unit |-> u, power |-> p]
Derived(components, scale, offset) ==
  [derived |-> TRUE, components |-> components, scale |-> scale, offset |-> offset]

Base ==
  [Number |-> BaseUnit, Kelvin |-> BaseUnit, Salinity |-> BaseUnit,
   pH |-> BaseUnit, Moles |-> BaseUnit, Grams |-> BaseUnit,
   Meters |-> BaseUnit, Seconds |-> BaseUnit, Coulombs |-> BaseUnit,
   Joules |-> BaseUnit]

\* const SeawaterDensity = 1.025
SeawaterDensity == <<41, 40>>

Derived1 ==
  [Celsius |-> Derived(<<C("Kelvin", 0)>>, Zero, <<5463, 20>>),
   Decimeters |-> Derived(<<C("Meters", 0)>>, <<1, 10>>, Zero),
   Centimeters |-> Derived(<<C("Meters", 0)>>, <<1, 100>>, Zero),
   GramsPerSecond |-> Derived(<<C("Grams", 0), C("Seconds", -1)>>, Zero, Zero),
   GramsPerMole |-> Derived(<<C("Grams", 0), C("Moles", -1)>>, Zero, Zero),
   CubicMeters |-> Derived(<<C("Meters", 3)>>, Zero, Zero),
   MetersPerSecond |-> Derived(<<C("Meters", 0), C("Seconds", -1)>>, Zero, Zero),
   SquareMetersPerSecond |-> Derived(<<C("Meters", 2), C("Seconds", -1)>>, Zero, Zero),
   MolesPerSecond |-> Derived(<<C("Moles", 0), C("Seconds", -1)>>, Zero, Zero),
   MolesPerSquareMeter |-> Derived(<<C("Moles", 0), C("Meters", -2)>>, Zero, Zero),
   MolesPerCubicMeter |-> Derived(<<C("Moles", 0), C("Meters", -3)>>, Zero, Zero),
   Hours |-> Derived(<<C("Seconds", 0)>>, <<1, 3600>>, Zero),
   Amperes |-> Derived(<<C("Coulombs", 0), C("Seconds", -1)>>, Zero, Zero),
   Volts |-> Derived(<<C("Joules", 0), C("Coulombs", -1)>>, Zero, Zero),
   JoulesPerKelvinMole |->
     Derived(<<C("Joules", 0), C("Kelvin", -1), C("Moles", -1)>>, Zero, Zero),
   CoulombsPerMole |-> Derived(<<C("Coulombs", 0), C("Moles", -1)>>, Zero, Zero)]

Derived2 ==
  [Liters |-> Derived(<<C("Decimeters", 3)>>, Zero, Zero),
   SquareCentimeters |-> Derived(<<C("Centimeters", 2)>>, Zero, Zero),
   CentimetersPerSecond |->
     Derived(<<C("Centimeters", 0), C("Seconds", -1)>>, Zero, Zero),
   CentimetersPerHour |->
     Derived(<<C("Centimeters", 0), C("Hours", -1)>>, Zero, Zero),
   MolesPerSquareMeterHour |->
     Derived(<<C("Moles", 0), C("Meters", -2), C("Hours", -1)>>, Zero, Zero),
   Watts |-> Derived(<<C("Amperes", 0), C("Volts", 0)>>, Zero, Zero),
   AmpSeconds |-> Derived(<<C("Amperes", 0), C("Seconds", 0)>>, Zero, Zero),
   Ohms |-> Derived(<<C("Volts", 0), C("Amperes", -1)>>, Zero, Zero)]

Derived3 ==
  [Molarity |-> Derived(<<C("Moles", 0), C("Liters", -1)>>, Zero, Zero),
   GramsPerLiter |-> Derived(<<C("Grams", 0), C("Liters", -1)>>, Zero, Zero),
   LitersPerSecond |-> Derived(<<C("Liters", 0), C("Seconds", -1)>>, Zero, Zero),
   MolesSquaredPerLiterSquared |->
     Derived(<<C("Moles", 2), C("Liters", -2)>>, Zero, Zero),
   Siemens |-> Derived(<<C("Ohms", -1)>>, Zero, Zero),
   SeawaterKg |-> Derived(<<C("Liters", 0)>>, NumRecip(SeawaterDensity), Zero)]

Derived4 ==
  [SiemensPerMeter |-> Derived(<<C("Siemens", 0), C("Meters", -1)>>, Zero, Zero),
   SiemensSquareCentimersPerMole |->
     Derived(<<C("Siemens", 0), C("Centimeters", 2), C("Moles", -1)>>, Zero, Zero),
   MolesPerSeawaterKg |->
     Derived(<<C("Moles", 0), C("SeawaterKg", -1)>>, Zero, Zero)]

\* const Units = { ...Base, ...Derived1, ...Derived2, ...Derived3, ...Derived4 }
UnitTable == Base @@ Derived1 @@ Derived2 @@ Derived3 @@ Derived4
UnitNames == DOMAIN UnitTable
BaseNames == DOMAIN Base
DerivedNames == UnitNames \ BaseNames


\* The derived units in the order of the source; the components array of
\* the i-th one is array i of the heap.
DerivedOrder ==
  <<"Celsius", "Decimeters", "Centimeters", "GramsPerSecond", "GramsPerMole",
    "CubicMeters", "MetersPerSecond", "SquareMetersPerSecond", "MolesPerSecond",
    "MolesPerSquareMeter", "MolesPerCubicMeter", "Hours", "Amperes", "Volts",
    "JoulesPerKelvinMole", "CoulombsPerMole",
    "Liters", "SquareCentimeters", "CentimetersPerSecond", "CentimetersPerHour",
    "MolesPerSquareMeterHour", "Watts", "AmpSeconds", "Ohms",
    "Molarity", "GramsPerLiter", "LitersPerSecond", "MolesSquaredPerLiterSquared",
    "Siemens", "SeawaterKg",
    "SiemensPerMeter", "SiemensSquareCentimersPerMole", "MolesPerSeawaterKg">>
NDerived == Len(DerivedOrder)
ArrayOf(name) == CHOOSE i \in 1..NDerived : DerivedOrder[i] = name

(***************************************************************************)
(* The heap of component arrays.  An array is a sequence of entries        *)
(* { unit, power }; entries are never shared between arrays (every push    *)
(* builds a new object), arrays are (add and negate pass this.components   *)
(* on).  Array 0 is "no array".                                            *)
(***************************************************************************)
ArrIds == 1..MaxArr
FreeArray == [live |-> FALSE, elems |-> <<>>]
Alloc(h) == CHOOSE i \in ArrIds : ~h[i].live /\ \A j \in 1..(i - 1) : h[j].live
\* `[ ...elems ]`: a new array object
NewArray(h, elems) ==
  LET id == Alloc(h)
  IN [h |-> [h EXCEPT ![id] = [live |-> TRUE, elems |-> elems]], id |-> id]

\* The registry as built when units.js is loaded.
InitUnits ==
  [u \in UnitNames |->
     [components |-> IF UnitTable[u].derived THEN ArrayOf(u) ELSE 0,
      scale |-> UnitTable[u].scale,
      offset |-> UnitTable[u].offset]]
InitHeap ==
  [i \in ArrIds |->
     IF i <= NDerived
     THEN [live |-> TRUE, elems |-> UnitTable[DerivedOrder[i]].components]
     ELSE FreeArray]

\* A failed assertion (utils.js: throw new Error): the operation returns no
\* value; the heap is as the operation left it.
Thrown(h) == [ok |-> FALSE, h |-> h, scale |-> NaN, value |-> NaN, components |-> 0]

(***************************************************************************)
(* units.js:149-184                                                        *)
(***************************************************************************)
MinOf(S) == CHOOSE i \in S : \A j \in S : i <= j

\* mutant: an entry whose power becomes 0 is kept
\* mutant: the entry is pushed without looking for one of the same unit
mergeSingleComponent_noMerge(h, U, components, unit, power) ==
  IF ~(U[unit].components = 0 /\ power # 0) THEN Thrown(h)
  ELSE [ok |-> TRUE,
        h |-> [h EXCEPT ![components].elems = Append(@, C(unit, power))]]

\* mutant: an entry whose power becomes 0 stays in the array
mergeSingleComponent_keepZero(h, U, components, unit, power) ==
  IF ~(U[unit].components = 0 /\ power # 0) THEN Thrown(h)
  ELSE
    LET elems == h[components].elems
        hits == {i \in 1..Len(elems) : elems[i].unit = unit}
    IN IF hits = {}
       THEN [ok |-> TRUE,
             h |-> [h EXCEPT ![components].elems = Append(elems, C(unit, power))]]
       ELSE [ok |-> TRUE,
             h |-> [h EXCEPT ![components].elems[MinOf(hits)].power = @ + power]]

mergeSingleComponent(h, U, components, unit, power) ==
  IF ~(U[unit].components = 0 /\ power # 0) THEN Thrown(h)
  ELSE
    LET elems == h[components].elems
        n == Len(elems)
        hits == {i \in 1..n : elems[i].unit = unit}
    IN IF hits = {}
       THEN [ok |-> TRUE,
             h |-> [h EXCEPT ![components].elems = Append(elems, C(unit, power))]]
       ELSE
         LET i == MinOf(hits)
             newPower == elems[i].power + power
         IN IF newPower = 0
            THEN [ok |-> TRUE,
                  h |-> [h EXCEPT ![components].elems =
                           SubSeq([elems EXCEPT ![i] = elems[n]], 1, n - 1)]]
            ELSE [ok |-> TRUE,
                  h |-> [h EXCEPT ![components].elems[i].power = newPower]]

RECURSIVE mergeComponentsFrom(_, _, _, _, _, _)
\* the for-of loop of mergeComponents from index i on; the array iterator
\* reads newComponents from the heap at every step
mergeComponentsFrom(h, U, components, newComponents, power, i) ==
  IF i > Len(h[newComponents].elems) THEN [ok |-> TRUE, h |-> h]
  ELSE
    LET e == h[newComponents].elems[i]
    IN IF ~(U[e.unit].components = 0 /\ e.power # 0) THEN Thrown(h)
       ELSE
         LET r == mergeSingleComponent(h, U, components, e.unit, power * e.power)
         IN IF ~r.ok THEN r
            ELSE mergeComponentsFrom(r.h, U, components, newComponents, power, i + 1)

\* mutant: `assert(power > 0)`
mergeComponents_positive(h, U, components, newComponents, power) ==
  IF power <= 0 THEN Thrown(h)
  ELSE mergeComponentsFrom(h, U, components, newComponents, power, 1)

mergeComponents(h, U, components, newComponents, power) ==
  IF power = 0 THEN Thrown(h)
  ELSE mergeComponentsFrom(h, U, components, newComponents, power, 1)

cloneComponents(h, components) == NewArray(h, h[components].elems)

\* mutant: only the lengths are compared
componentsMatch_lengthOnly(h, acomponents, bcomponents) ==
  Len(h[acomponents].elems) = Len(h[bcomponents].elems)

\* mutant: the entries are compared position by position
componentsMatch_inOrder(h, acomponents, bcomponents) ==
  h[acomponents].elems = h[bcomponents].elems

componentsMatch(h, acomponents, bcomponents) ==
  LET a == h[acomponents].elems
      b == h[bcomponents].elems
  IN IF Len(a) # Len(b) THEN FALSE
     ELSE \A i \in 1..Len(a) :
            \E j \in 1..Len(b) : a[i].unit = b[j].unit /\ a[i].power = b[j].power

(***************************************************************************)
(* units.js:121-138                                                        *)
(***************************************************************************)
RECURSIVE reduceUnit(_, _, _)
RECURSIVE reduceUnitFrom(_, _, _, _, _)

RECURSIVE reduceUnitFrom_scaleNoPower(_, _, _, _, _)
\* mutant: `rv.scale *= scale`, the factor's scale not raised to its power
reduceUnitFrom_scaleNoPower(h, U, unit, rv, i) ==
  IF i > Len(h[U[unit].components].elems)
  THEN [ok |-> TRUE, h |-> h, scale |-> rv.scale, components |-> rv.components]
  ELSE
    LET e == h[U[unit].components].elems[i]
        p == IF e.power # 0 THEN e.power ELSE 1
        r == reduceUnit(h, U, e.unit)
    IN IF ~r.ok THEN Thrown(r.h)
       ELSE
         LET m == mergeComponents(r.h, U, rv.components, r.components, p)
         IN IF ~m.ok THEN Thrown(m.h)
            ELSE reduceUnitFrom_scaleNoPower(m.h, U, unit,
                                [rv EXCEPT !.scale = NumMul(rv.scale, r.scale)],
                                i + 1)

\* the for loop of reduceUnit from index i on; rv is { scale, components }
reduceUnitFrom(h, U, unit, rv, i) ==
  IF i > Len(h[U[unit].components].elems)
  THEN [ok |-> TRUE, h |-> h, scale |-> rv.scale, components |-> rv.components]
  ELSE
    LET e == h[U[unit].components].elems[i]
        p == IF e.power # 0 THEN e.power ELSE 1
        r == reduceUnit(h, U, e.unit)
    IN IF ~r.ok THEN Thrown(r.h)
       ELSE
         LET m == mergeComponents(r.h, U, rv.components, r.components, p)
         IN IF ~m.ok THEN Thrown(m.h)
            ELSE reduceUnitFrom(m.h, U, unit,
                                [rv EXCEPT !.scale = NumMul(rv.scale, NumPow(r.scale, p))],
                                i + 1)

\* mutant: the assertion on offset units is missing
reduceUnit_offsetAllowed(h, U, unit) ==
  IF unit = "Number"
  THEN LET a == NewArray(h, <<>>)
       IN [ok |-> TRUE, h |-> a.h, scale |-> One, components |-> a.id]
  ELSE IF U[unit].components = 0
  THEN LET a == NewArray(h, <<C(unit, 1)>>)
       IN [ok |-> TRUE, h |-> a.h, scale |-> One, components |-> a.id]
  ELSE
    LET a == NewArray(h, <<>>)
    IN reduceUnitFrom(a.h, U, unit,
                      [scale |-> IF Truthy(U[unit].scale) THEN U[unit].scale ELSE One,
                       components |-> a.id],
                      1)

\* mutant: the unit's own components array is the accumulator
reduceUnit_ownArray(h, U, unit) ==
  IF unit = "Number"
  THEN LET a == NewArray(h, <<>>)
       IN [ok |-> TRUE, h |-> a.h, scale |-> One, components |-> a.id]
  ELSE IF U[unit].components = 0
  THEN LET a == NewArray(h, <<C(unit, 1)>>)
       IN [ok |-> TRUE, h |-> a.h, scale |-> One, components |-> a.id]
  ELSE IF Truthy(U[unit].offset) THEN Thrown(h)
  ELSE reduceUnitFrom(h, U, unit,
                      [scale |-> IF Truthy(U[unit].scale) THEN U[unit].scale ELSE One,
                       components |-> U[unit].components],
                      1)

reduceUnit(h, U, unit) ==
  IF unit = "Number"
  THEN LET a == NewArray(h, <<>>)
       IN [ok |-> TRUE, h |-> a.h, scale |-> One, components |-> a.id]
  ELSE IF U[unit].components = 0
  THEN LET a == NewArray(h, <<C(unit, 1)>>)
       IN [ok |-> TRUE, h |-> a.h, scale |-> One, components |-> a.id]
  ELSE IF Truthy(U[unit].offset) THEN Thrown(h)
  ELSE
    LET a == NewArray(h, <<>>)
    IN reduceUnitFrom(a.h, U, unit,
                      [scale |-> IF Truthy(U[unit].scale) THEN U[unit].scale ELSE One,
                       components |-> a.id],
                      1)

(***************************************************************************)
(* units.js:11-31.  The second argument of Term is either an array of      *)
(* components (the internal constructor) or a unit object.  The value is   *)
(* always a number here, so `typeof value == "number"` holds.              *)
(***************************************************************************)
AnArray(id) == [isArray |-> TRUE, id |-> id, name |-> ""]
AUnit(name) == [isArray |-> FALSE, id |-> 0, name |-> name]

\* mutant: the offset branch stores the value without the offset
Term_offsetDropped(h, U, value, unit) ==
  IF ~(TypeofNumber(value) /\ ~IsNaN(value)) THEN Thrown(h)
  ELSE IF unit.isArray
  THEN [ok |-> TRUE, h |-> h, value |-> value, components |-> unit.id]
  ELSE IF Truthy(U[unit.name].offset)
  THEN
    LET u == U[unit.name]
        elems == h[u.components].elems
        a == NewArray(h, <<C(elems[1].unit, 1)>>)
    IN [ok |-> TRUE, h |-> a.h, value |-> value, components |-> a.id]
  ELSE
    LET r == reduceUnit(h, U, unit.name)
    IN IF ~r.ok THEN Thrown(r.h)
       ELSE [ok |-> TRUE, h |-> r.h, value |-> NumMul(value, r.scale),
             components |-> r.components]

\* mutant: `this.value = value`, the scale of the unit is not applied
Term_noScale(h, U, value, unit) ==
  IF ~(TypeofNumber(value) /\ ~IsNaN(value)) THEN Thrown(h)
  ELSE IF unit.isArray
  THEN [ok |-> TRUE, h |-> h, value |-> value, components |-> unit.id]
  ELSE IF Truthy(U[unit.name].offset)
  THEN
    LET u == U[unit.name]
        elems == h[u.components].elems
        a == NewArray(h, <<C(elems[1].unit, 1)>>)
    IN [ok |-> TRUE, h |-> a.h, value |-> NumAdd(value, u.offset), components |-> a.id]
  ELSE
    LET r == reduceUnit(h, U, unit.name)
    IN IF ~r.ok THEN Thrown(r.h)
       ELSE [ok |-> TRUE, h |-> r.h, value |-> value, components |-> r.components]

\* mutant: the offset branch asserts nothing about the declaration
Term_offsetUnchecked(h, U, value, unit) ==
  IF ~(TypeofNumber(value) /\ ~IsNaN(value)) THEN Thrown(h)
  ELSE IF unit.isArray
  THEN [ok |-> TRUE, h |-> h, value |-> value, components |-> unit.id]
  ELSE IF Truthy(U[unit.name].offset)
  THEN
    LET u == U[unit.name]
        elems == h[u.components].elems
        a == NewArray(h, <<C(elems[1].unit, 1)>>)
    IN [ok |-> TRUE, h |-> a.h, value |-> NumAdd(value, u.offset), components |-> a.id]
  ELSE
    LET r == reduceUnit(h, U, unit.name)
    IN IF ~r.ok THEN Thrown(r.h)
       ELSE [ok |-> TRUE, h |-> r.h, value |-> NumMul(value, r.scale),
             components |-> r.components]

\* mutant: only `typeof value == "number"` is asserted
Term_NaNAllowed(h, U, value, unit) ==
  IF ~TypeofNumber(value) THEN Thrown(h)
  ELSE IF unit.isArray
  THEN [ok |-> TRUE, h |-> h, value |-> value, components |-> unit.id]
  ELSE IF Truthy(U[unit.name].offset)
  THEN
    LET u == U[unit.name]
        elems == h[u.components].elems
        a == NewArray(h, <<C(elems[1].unit, 1)>>)
    IN [ok |-> TRUE, h |-> a.h, value |-> NumAdd(value, u.offset), components |-> a.id]
  ELSE
    LET r == reduceUnit(h, U, unit.name)
    IN IF ~r.ok THEN Thrown(r.h)
       ELSE [ok |-> TRUE, h |-> r.h, value |-> NumMul(value, r.scale),
             components |-> r.components]

Term(h, U, value, unit) ==
  IF ~(TypeofNumber(value) /\ ~IsNaN(value)) THEN Thrown(h)
  ELSE IF unit.isArray
  THEN [ok |-> TRUE, h |-> h, value |-> value, components |-> unit.id]
  ELSE IF Truthy(U[unit.name].offset)
  THEN
    LET u == U[unit.name]
    IN IF Truthy(u.scale) THEN Thrown(h)
       ELSE IF u.components = 0 THEN Thrown(h)
       ELSE
         LET elems == h[u.components].elems
         IN IF ~(Len(elems) = 1 /\ elems[1].power = 0
                 /\ U[elems[1].unit].components = 0)
            THEN Thrown(h)
            ELSE
              LET a == NewArray(h, <<C(elems[1].unit, 1)>>)
              IN [ok |-> TRUE, h |-> a.h, value |-> NumAdd(value, u.offset),
                  components |-> a.id]
  ELSE
    LET r == reduceUnit(h, U, unit.name)
    IN IF ~r.ok THEN Thrown(r.h)
       ELSE [ok |-> TRUE, h |-> r.h, value |-> NumMul(value, r.scale),
             components |-> r.components]

\* Terms[id] = value => new Term(value, unit)     (units.js:497-500)
Terms(h, U, id, value) == Term(h, U, value, AUnit(id))

(***************************************************************************)
(* Term.prototype, units.js:33-118.  `this` and v are Term objects         *)
(* [value, components]; a method returns ok = FALSE when it throws.        *)
(***************************************************************************)
\* mutant: the stored value is returned without dividing by the scale
normalize_noScale(h, U, this, unit) ==
  LET r == reduceUnit(h, U, unit)
  IN IF ~r.ok THEN Thrown(r.h)
     ELSE IF ~componentsMatch(r.h, this.components, r.components) THEN Thrown(r.h)
     ELSE [ok |-> TRUE, h |-> r.h, value |-> this.value, components |-> 0]

normalize(h, U, this, unit) ==
  LET r == reduceUnit(h, U, unit)
  IN IF ~r.ok THEN Thrown(r.h)
     ELSE IF ~componentsMatch(r.h, this.components, r.components) THEN Thrown(r.h)
     ELSE [ok |-> TRUE, h |-> r.h, value |-> NumDiv(this.value, r.scale),
           components |-> 0]

mul(h, U, this, v) ==
  LET c == cloneComponents(h, this.components)
      m == mergeComponents(c.h, U, c.id, v.components, 1)
  IN IF ~m.ok THEN Thrown(m.h)
     ELSE Term(m.h, U, NumMul(this.value, v.value), AnArray(c.id))

\* mutant: the powers are inverted in v.components itself, not in a clone
div_noClone(h, U, this, v) ==
  LET inverted == [i \in 1..Len(h[v.components].elems) |->
                     [h[v.components].elems[i] EXCEPT !.power = @ * (-1)]]
      h1 == [h EXCEPT ![v.components].elems = inverted]
      t == Term(h1, U, NumDiv(One, v.value), AnArray(v.components))
  IN IF ~t.ok THEN Thrown(t.h)
     ELSE mul(t.h, U, this, [value |-> t.value, components |-> t.components])

\* mutant: the powers of the divisor are not inverted
div_noInvert(h, U, this, v) ==
  LET c == cloneComponents(h, v.components)
      t == Term(c.h, U, NumDiv(One, v.value), AnArray(c.id))
  IN IF ~t.ok THEN Thrown(t.h)
     ELSE mul(t.h, U, this, [value |-> t.value, components |-> t.components])

\* mutant: `assert(v.value != 0)`, a divisor of stored value 0 is refused
div_nonZero(h, U, this, v) ==
  IF v.value = Zero THEN Thrown(h)
  ELSE
    LET c == cloneComponents(h, v.components)
        inverted == [i \in 1..Len(c.h[c.id].elems) |->
                       [c.h[c.id].elems[i] EXCEPT !.power = @ * (-1)]]
        h1 == [c.h EXCEPT ![c.id].elems = inverted]
        t == Term(h1, U, NumDiv(One, v.value), AnArray(c.id))
    IN IF ~t.ok THEN Thrown(t.h)
       ELSE mul(t.h, U, this, [value |-> t.value, components |-> t.components])

div(h, U, this, v) ==
  LET c == cloneComponents(h, v.components)
      inverted == [i \in 1..Len(c.h[c.id].elems) |->
                     [c.h[c.id].elems[i] EXCEPT !.power = @ * (-1)]]
      h1 == [c.h EXCEPT ![c.id].elems = inverted]
      t == Term(h1, U, NumDiv(One, v.value), AnArray(c.id))
  IN IF ~t.ok THEN Thrown(t.h)
     ELSE mul(t.h, U, this, [value |-> t.value, components |-> t.components])

cmul(h, U, this, n) ==
  LET t == Terms(h, U, "Number", n)
  IN IF ~t.ok THEN Thrown(t.h)
     ELSE mul(t.h, U, this, [value |-> t.value, components |-> t.components])

RECURSIVE sqrtFrom_oddCheck(_, _, _)
\* mutant: the loop asserts `entry.power % 2 != 1`
sqrtFrom_oddCheck(h, newComponents, i) ==
  IF i > Len(h[newComponents].elems) THEN [ok |-> TRUE, h |-> h]
  ELSE IF JsRem(h[newComponents].elems[i].power, 2) = 1 THEN Thrown(h)
  ELSE sqrtFrom_oddCheck([h EXCEPT ![newComponents].elems[i].power = @ \div 2],
                         newComponents, i + 1)

RECURSIVE sqrtFrom(_, _, _)
\* the for-of loop of sqrt from index i on
sqrtFrom(h, newComponents, i) ==
  IF i > Len(h[newComponents].elems) THEN [ok |-> TRUE, h |-> h]
  ELSE IF JsRem(h[newComponents].elems[i].power, 2) # 0 THEN Thrown(h)
  ELSE sqrtFrom([h EXCEPT ![newComponents].elems[i].power = @ \div 2],
                newComponents, i + 1)

\* mutant: the loop works on this.components, not on a clone
sqrt_noClone(h, U, this) ==
  LET l == sqrtFrom(h, this.components, 1)
  IN IF ~l.ok THEN Thrown(l.h)
     ELSE Term(l.h, U, NumSqrt(this.value), AnArray(this.components))

sqrt(h, U, this) ==
  LET c == cloneComponents(h, this.components)
      l == sqrtFrom(c.h, c.id, 1)
  IN IF ~l.ok THEN Thrown(l.h)
     ELSE Term(l.h, U, NumSqrt(this.value), AnArray(c.id))

\* mutant: the components are not compared
add_noCheck(h, U, this, v) ==
  Term(h, U, NumAdd(this.value, v.value), AnArray(this.components))

\* mutant: `this.value - v.value`
add_minus(h, U, this, v) ==
  IF ~componentsMatch(h, this.components, v.components) THEN Thrown(h)
  ELSE Term(h, U, NumAdd(this.value, NumNeg(v.value)), AnArray(this.components))

add(h, U, this, v) ==
  IF ~componentsMatch(h, this.components, v.components) THEN Thrown(h)
  ELSE Term(h, U, NumAdd(this.value, v.value), AnArray(this.components))

negate(h, U, this) == Term(h, U, NumNeg(this.value), AnArray(this.components))

\* mutant: `this.add(v)`, the argument is not negated
sub_noNegate(h, U, this, v) == add(h, U, this, v)

sub(h, U, this, v) ==
  LET n == negate(h, U, v)
  IN IF ~n.ok THEN Thrown(n.h)
     ELSE add(n.h, U, this, [value |-> n.value, components |-> n.components])

\* returns a boolean in `bool`
lessThan(h, U, this, v) ==
  IF ~componentsMatch(h, this.components, v.components)
  THEN [ok |-> FALSE, h |-> h, bool |-> FALSE]
  ELSE [ok |-> TRUE, h |-> h, bool |-> NumLess(this.value, v.value)]

\* mutant: `this.value <= 0`
isNegative_orZero(this) == ~NumLess(Zero, this.value)

isNegative(this) == NumLess(this.value, Zero)

number(h, U, this) == normalize(h, U, this, "Number")

\* mutant: the logarithm is taken of the stored value, number() is not called
naturalLogarithm_noNumber(h, U, this) ==
  Terms(h, U, "Number", NumLog(this.value))

naturalLogarithm(h, U, this) ==
  LET n == number(h, U, this)
  IN IF ~n.ok THEN Thrown(n.h)
     ELSE Terms(n.h, U, "Number", NumLog(n.value))

abs(h, U, this) ==
  LET n == number(h, U, this)
  IN IF ~n.ok THEN Thrown(n.h)
     ELSE Terms(n.h, U, "Number", NumAbs(n.value))

\* mutant: the power of the pH component is not asserted
concentrationH_anyPower(h, U, this) ==
  LET elems == h[this.components].elems
  IN IF Len(elems) # 1 THEN Thrown(h)
     ELSE IF elems[1].unit # "pH" THEN Thrown(h)
     ELSE Terms(h, U, "Molarity", NumPow10(NumNeg(this.value)))

concentrationH(h, U, this) ==
  LET elems == h[this.components].elems
  IN IF Len(elems) # 1 THEN Thrown(h)
     ELSE IF ~(elems[1].power = 1 /\ elems[1].unit = "pH") THEN Thrown(h)
     ELSE Terms(h, U, "Molarity", NumPow10(NumNeg(this.value)))

(***************************************************************************)
(* The callers.  A calling script holds Terms in variables (slots), calls  *)
(* the constructors and methods and assigns the results.  A call that      *)
(* throws assigns nothing.  Arrays no variable reaches any more are        *)
(* released after each call (garbage collection).                          *)
(***************************************************************************)
Slots == {"a", "b", "c", "r", "s", "t", "w", "x"}
NoTerm == [value |-> NaN, components |-> 0]
NoOrigin == [unit |-> "", value |-> NaN]
TermOf(r) == [value |-> r.value, components |-> r.components]

Collect(h, U, ts) ==
  [i \in ArrIds |->
     IF (\E u \in DOMAIN U : U[u].components = i) \/ (\E s \in Slots : ts[s].components = i)
     THEN h[i] ELSE FreeArray]

Outcome(op, ok, recv, arg, dst, num, bool) ==
  [op |-> op, ok |-> ok, recv |-> recv, arg |-> arg, dst |-> dst,
   num |-> num, bool |-> bool]

\* The values a caller passes to a constructor.
Literals == {<<100, 1>>, <<5463, 20>>, <<10, 1>>, <<16, 1>>}
Grid(m) == {Rat(n, d) : n \in (-m)..m, d \in 1..MaxDen}
NotNumbers == {Undefined, AString}
InputVals == Grid(MaxNum) \cup Literals \cup {PosInf, NegInf, NaN} \cup NotNumbers
SmallVals == {Int2Num(n) : n \in (-MaxSmall)..MaxSmall} \cup {<<4, 1>>}
SecondVals == {Int2Num(n) : n \in 0..(MaxSmall - 1)} \cup {<<4, 1>>}
RateVals == {Int2Num(n) : n \in (-MaxSmall)..MaxSmall} \cup {<<10, 1>>}
TimeVals == {Int2Num(n) : n \in 0..MaxSmall} \cup {<<2, 1>>}
AddVals == {Int2Num(n) : n \in 1..MaxSmall} \cup {<<-1, 2>>, Zero, PosInf, NegInf}

InitState ==
  /\ units = InitUnits
  /\ heap = InitHeap
  /\ terms = [s \in Slots |-> NoTerm]
  /\ origin = [s \in Slots |-> NoOrigin]
  /\ out = Outcome("", TRUE, "", "", "", NaN, FALSE)

\* the assignment `dst = <call>`: r is what the call returned or threw, o the
\* unit and value the Term was constructed from (NoOrigin for a method result)
Store(op, recv, arg, dst, num, o, r) ==
  LET ts == IF r.ok THEN [terms EXCEPT ![dst] = TermOf(r)] ELSE terms
  IN /\ terms' = ts
     /\ heap' = Collect(r.h, units, ts)
     /\ origin' = IF r.ok THEN [origin EXCEPT ![dst] = o] ELSE origin
     /\ out' = Outcome(op, r.ok, recv, arg, dst, num, FALSE)
     /\ UNCHANGED units

\* a call whose result is a number or a boolean, assigned to no slot
Returned(op, recv, arg, r) ==
  /\ heap' = Collect(r.h, units, terms)
  /\ out' = Outcome(op, r.ok, recv, arg, "",
                    IF op \in {"normalize", "number"} THEN r.value ELSE NaN,
                    IF op \in {"lessThan", "isNegative"} THEN r.bool ELSE FALSE)
  /\ UNCHANGED <<units, terms, origin>>

\* dst = Terms.U(v)
Construct(dst, U, v) ==
  Store("construct", "", U, dst, v, [unit |-> U, value |-> v],
        Terms(heap, units, U, v))

\* dst = x.mul(y), x.div(y), x.add(y), x.sub(y)
Apply2(op, h, U, x, y) ==
  CASE op = "mul" -> mul(h, U, x, y)
    [] op = "div" -> div(h, U, x, y)
    [] op = "add" -> add(h, U, x, y)
    [] op = "sub" -> sub(h, U, x, y)

InRange(op, x, y) ==
  CASE op = "mul" -> MulFits(x, y)
    [] op = "div" -> MulFits(x, NumRecip(y))
    [] op \in {"add", "sub"} -> AddFits(x, y)

Binary(op, x, y, dst) ==
  /\ terms[x] # NoTerm /\ terms[y] # NoTerm
  /\ InRange(op, terms[x].value, terms[y].value)
  /\ Store(op, x, y, dst, NaN, NoOrigin,
           Apply2(op, heap, units, terms[x], terms[y]))

\* dst = x.sqrt(), x.negate()
Apply1(op, h, U, x) ==
  CASE op = "sqrt" -> sqrt(h, U, x)
    [] op = "negate" -> negate(h, U, x)
    [] op = "naturalLogarithm" -> naturalLogarithm(h, U, x)
    [] op = "abs" -> abs(h, U, x)
    [] op = "concentrationH" -> concentrationH(h, U, x)

\* the Math function of the method has a value in the model's numbers
Representable(op, x) ==
  CASE op = "sqrt" -> SqrtRepresentable(x)
    [] op = "naturalLogarithm" -> LogRepresentable(x)
    [] op = "concentrationH" -> Pow10Representable(x)
    [] OTHER -> TRUE

Unary(op, x, dst) ==
  /\ terms[x] # NoTerm
  /\ Representable(op, terms[x].value)
  /\ Store(op, x, "", dst, NaN, NoOrigin, Apply1(op, heap, units, terms[x]))

\* dst = x.cmul(n)
Cmul(x, n, dst) ==
  /\ terms[x] # NoTerm
  /\ MulFits(terms[x].value, n)
  /\ Store("cmul", x, "", dst, n, NoOrigin, cmul(heap, units, terms[x], n))

\* x.number()
Number(x) ==
  /\ terms[x] # NoTerm
  /\ Returned("number", x, "", number(heap, units, terms[x]))

\* x.isNegative()
IsNegativeCall(x) ==
  /\ terms[x] # NoTerm
  /\ Returned("isNegative", x, "",
              [ok |-> TRUE, h |-> heap, bool |-> isNegative(terms[x])])

\* x.normalize(Units.T)
NormalizeFits(x, T) ==
  LET ru == reduceUnit(heap, units, T)
  IN ru.ok => MulFits(x, NumRecip(ru.scale))

Normalize(x, T) ==
  /\ terms[x] # NoTerm
  /\ NormalizeFits(terms[x].value, T)
  /\ Returned("normalize", x, T, normalize(heap, units, terms[x], T))

\* x.lessThan(y)
LessThan(x, y) ==
  /\ terms[x] # NoTerm /\ terms[y] # NoTerm
  /\ AddFits(terms[x].value, terms[y].value)
  /\ Returned("lessThan", x, y, lessThan(heap, units, terms[x], terms[y]))

(***************************************************************************)
(* Vocabulary of the properties: the dimension of a vector and of a unit   *)
(* as the specification defines them (exponent per base unit), computed    *)
(* from the unit tables and not by the code's reduceUnit.                  *)
(***************************************************************************)
BaseDims == BaseNames \ {"Number"}
ZeroDim == [b \in BaseDims |-> 0]

RECURSIVE DimOfSeq(_)
\* exponent per base unit of a components array (entries with a power)
DimOfSeq(elems) ==
  IF elems = <<>> THEN ZeroDim
  ELSE LET e == Head(elems)
           rest == DimOfSeq(Tail(elems))
       IN [b \in BaseDims |-> rest[b] + (IF e.unit = b THEN e.power ELSE 0)]
DimOf(id) == DimOfSeq(heap[id].elems)
PairSet(id) == {<<heap[id].elems[i].unit, heap[id].elems[i].power>> :
                  i \in 1..Len(heap[id].elems)}

RECURSIVE UnitDim(_)
RECURSIVE UnitDimSeq(_)
UnitDimSeq(factors) ==
  IF factors = <<>> THEN ZeroDim
  ELSE LET f == Head(factors)
           p == IF f.power = 0 THEN 1 ELSE f.power
           d == UnitDim(f.unit)
           rest == UnitDimSeq(Tail(factors))
       IN [b \in BaseDims |-> rest[b] + p * d[b]]
UnitDim(u) ==
  IF u = "Number" THEN ZeroDim
  ELSE IF ~UnitTable[u].derived THEN [b \in BaseDims |-> IF b = u THEN 1 ELSE 0]
  ELSE UnitDimSeq(UnitTable[u].components)

RECURSIVE UnitScale(_)
RECURSIVE UnitScaleSeq(_)
UnitScaleSeq(factors) ==
  IF factors = <<>> THEN One
  ELSE LET f == Head(factors)
           p == IF f.power = 0 THEN 1 ELSE f.power
       IN NumMul(NumPow(UnitScale(f.unit), p), UnitScaleSeq(Tail(factors)))
UnitScale(u) ==
  IF ~UnitTable[u].derived THEN One
  ELSE NumMul(IF UnitTable[u].scale = Zero THEN One ELSE UnitTable[u].scale,
              UnitScaleSeq(UnitTable[u].components))

HasOffset(u) == UnitTable[u].offset # Zero
Kelvin1 == {<<"Kelvin", 1>>}
CelsiusOffset == <<5463, 20>>

(***************************************************************************)
(* SpecNormalize: a = Terms.U(v); a.normalize(Units.T), for every          *)
(* registered U and T and every input value v.                             *)
(***************************************************************************)
InitNormalize == InitState /\ pc = "start"

NormConstruct ==
  /\ pc = "start"
  /\ \E U \in UnitNames, v \in InputVals : Construct("a", U, v)
  /\ pc' = IF out'.ok THEN "made" ELSE "thrown"

NormNormalize ==
  /\ pc = "made"
  /\ \E T \in UnitNames : Normalize("a", T)
  /\ pc' = IF out'.ok THEN "done" ELSE "thrown"

NextNormalize == NormConstruct \/ NormNormalize

SpecNormalize == InitNormalize /\ [][NextNormalize]_vars

(***************************************************************************)
(* SpecArith: a = Terms.U1(v1); b = Terms.U2(v2); then one of              *)
(* r = a.mul(b), a.div(b), a.add(b), a.sub(b) or a.lessThan(b); then       *)
(* s = r.sqrt().  Math.sqrt is called only where its result is a number of *)
(* the model (SqrtRepresentable).                                          *)
(***************************************************************************)
InitArith == InitState /\ pc = "start"

ArithConstructA ==
  /\ pc = "start"
  /\ \E U \in UnitNames, v \in SmallVals : Construct("a", U, v)
  /\ pc' = IF out'.ok THEN "a" ELSE "thrown"

ArithConstructB ==
  /\ pc = "a"
  /\ \E U \in UnitNames, v \in SecondVals : Construct("b", U, v)
  /\ pc' = IF out'.ok THEN "ab" ELSE "thrown"

ArithBinary ==
  /\ pc = "ab"
  /\ \E op \in {"mul", "div", "add", "sub"} : Binary(op, "a", "b", "r")
  /\ pc' = IF out'.ok THEN "r" ELSE "thrown"

ArithLessThan ==
  /\ pc = "ab"
  /\ LessThan("a", "b")
  /\ pc' = IF out'.ok THEN "done" ELSE "thrown"

ArithSqrt ==
  /\ pc = "r"
  /\ Unary("sqrt", "r", "s")
  /\ pc' = IF out'.ok THEN "done" ELSE "thrown"

NextArith ==
  ArithConstructA \/ ArithConstructB \/ ArithBinary \/ ArithLessThan \/ ArithSqrt

SpecArith == InitArith /\ [][NextArith]_vars

(***************************************************************************)
(* SpecCompose: a = Terms.A(v1); b = Terms.B(v2); r = a.mul(b) or          *)
(* r = a.div(b); r.normalize(Units.T), for the units A and B that are the  *)
(* factors of a registered two-factor unit and the targets T that are such *)
(* units.  pc keeps the method that built r.                               *)
(***************************************************************************)
Factor(T, i) == UnitTable[T].components[i]
TwoFactor(T) ==
  /\ UnitTable[T].derived /\ UnitTable[T].scale = Zero
  /\ Len(UnitTable[T].components) = 2
  /\ Factor(T, 1).power \in {0, 1} /\ Factor(T, 2).power \in {0, 1, -1}
\* T is declared as A * B, as A / B
DeclaredProduct(T, A, B) ==
  /\ TwoFactor(T) /\ Factor(T, 1).unit = A
  /\ Factor(T, 2).unit = B /\ Factor(T, 2).power \in {0, 1}
DeclaredQuotient(T, A, B) ==
  /\ TwoFactor(T) /\ Factor(T, 1).unit = A
  /\ Factor(T, 2).unit = B /\ Factor(T, 2).power = -1
ComposeTargets == {T \in UnitNames : TwoFactor(T)} \cup {"Meters"}
ComposeUnits ==
  {Factor(T, i).unit : T \in {U \in UnitNames : TwoFactor(U)}, i \in {1, 2}}
    \cup {"MetersPerSecond"}

InitCompose == InitState /\ pc = "start"

ComposeConstructA ==
  /\ pc = "start"
  /\ \E U \in ComposeUnits, v \in RateVals : Construct("a", U, v)
  /\ pc' = IF out'.ok THEN "a" ELSE "thrown"

ComposeConstructB ==
  /\ pc = "a"
  /\ \E U \in ComposeUnits, v \in TimeVals : Construct("b", U, v)
  /\ pc' = IF out'.ok THEN "ab" ELSE "thrown"

ComposeBinary ==
  /\ pc = "ab"
  /\ \E op \in {"mul", "div"} : Binary(op, "a", "b", "r") /\ pc' = IF out'.ok THEN op ELSE "thrown"

ComposeNormalize ==
  /\ pc \in {"mul", "div"} /\ out.op # "normalize"
  /\ \E T \in ComposeTargets : Normalize("r", T)
  /\ pc' = pc

NextCompose ==
  ComposeConstructA \/ ComposeConstructB \/ ComposeBinary \/ ComposeNormalize

SpecCompose == InitCompose /\ [][NextCompose]_vars

(***************************************************************************)
(* SpecAdd: a, b, c of one dimension (possibly of different units); then   *)
(* r = a.add(b); s = b.add(a); t = r.add(c); w = b.add(c); x = a.add(w).   *)
(* Each sum is an expression of its own: one that throws leaves its        *)
(* variable unassigned, and a sum of an unassigned variable is not         *)
(* evaluated.                                                              *)
(***************************************************************************)
InitAdd == InitState /\ pc = "start"

AddConstruct ==
  \E p \in {<<"start", "a", "a">>, <<"a", "b", "ab">>, <<"ab", "c", "abc">>} :
    /\ pc = p[1]
    /\ \E U \in UnitNames, v \in AddVals :
         /\ p[1] # "start" => UnitDim(U) = UnitDim(origin["a"].unit)
         /\ Construct(p[2], U, v)
    /\ pc' = IF out'.ok THEN p[3] ELSE "thrown"

AddSteps ==
  {<<"abc", "a", "b", "r", "r">>, <<"r", "b", "a", "s", "s">>,
   <<"s", "r", "c", "t", "t">>, <<"t", "b", "c", "w", "w">>,
   <<"w", "a", "w", "x", "done">>}

AddSum ==
  \E p \in AddSteps :
    /\ pc = p[1]
    /\ Binary("add", p[2], p[3], p[4])
    /\ pc' = p[5]

AddSkip ==
  \E p \in AddSteps :
    /\ pc = p[1]
    /\ NoTerm \in {terms[p[2]], terms[p[3]]}
    /\ pc' = p[5]
    /\ UNCHANGED <<units, heap, terms, origin, out>>

NextAdd == AddConstruct \/ AddSum \/ AddSkip

SpecAdd == InitAdd /\ [][NextAdd]_vars

(***************************************************************************)
(* SpecOps: a and b are constructed, then two calls are made, the first on *)
(* a and b, the second on the result r of the first and a, b or r; a call  *)
(* is any method of Term.prototype.                                        *)
(***************************************************************************)
OpsUnits ==
  {"Number", "Meters", "Seconds", "pH", "Celsius", "SquareCentimeters",
   "MetersPerSecond", "Molarity"}
OpsTargets == {"Number", "Meters", "Molarity", "Celsius"}
OpsValsA == {<<4, 1>>, <<-1, 1>>}
OpsValsB == {One, Zero}
Methods2 == {"mul", "div", "add", "sub"}
Methods1 == {"sqrt", "negate", "naturalLogarithm", "abs", "concentrationH"}

InitOps == InitState /\ pc = "start"

OpsConstructA ==
  /\ pc = "start"
  /\ \E U \in OpsUnits, v \in OpsValsA : Construct("a", U, v)
  /\ pc' = "a"

OpsConstructB ==
  /\ pc = "a"
  /\ \E U \in OpsUnits, v \in OpsValsB : Construct("b", U, v)
  /\ pc' = "ab"

\* the receiver and the argument of the next call, and where its result goes
OpsOperands ==
  IF pc = "ab" THEN {<<x, y>> : x, y \in {"a", "b"}}
  ELSE {<<"r", y>> : y \in {"a", "b", "r"}} \cup {<<x, "r">> : x \in {"a", "b"}}
OpsReceivers == IF pc = "ab" THEN {"a", "b"} ELSE {"r"}
OpsDst == IF pc = "ab" THEN "r" ELSE "s"
OpsNext == IF pc = "ab" THEN "r" ELSE "done"

OpsBinary ==
  /\ pc \in {"ab", "r"}
  /\ \E op \in Methods2, p \in OpsOperands : Binary(op, p[1], p[2], OpsDst)
  /\ pc' = OpsNext

OpsUnary ==
  /\ pc \in {"ab", "r"}
  /\ \E op \in Methods1, x \in OpsReceivers : Unary(op, x, OpsDst)
  /\ pc' = OpsNext

OpsCmul ==
  /\ pc \in {"ab", "r"}
  /\ \E x \in OpsReceivers : Cmul(x, <<2, 1>>, OpsDst)
  /\ pc' = OpsNext

OpsLessThan ==
  /\ pc \in {"ab", "r"}
  /\ \E p \in OpsOperands : LessThan(p[1], p[2])
  /\ pc' = OpsNext

OpsNumber ==
  /\ pc \in {"ab", "r"}
  /\ \E x \in OpsReceivers : Number(x)
  /\ pc' = OpsNext

OpsIsNegative ==
  /\ pc \in {"ab", "r"}
  /\ \E x \in OpsReceivers : IsNegativeCall(x)
  /\ pc' = OpsNext

OpsNormalize ==
  /\ pc \in {"ab", "r"}
  /\ \E x \in OpsReceivers, T \in OpsTargets : Normalize(x, T)
  /\ pc' = OpsNext

NextOps ==
  \/ OpsConstructA \/ OpsConstructB \/ OpsBinary \/ OpsUnary \/ OpsCmul
  \/ OpsLessThan \/ OpsNumber \/ OpsIsNegative \/ OpsNormalize

SpecOps == InitOps /\ [][NextOps]_vars

(***************************************************************************)
(* SpecMixed: a = Terms.U1(x) and b = Terms.U2(y) for units of one         *)
(* dimension; then a.add(b).normalize(Units.U1), or a.lessThan(b).         *)
(***************************************************************************)
MixedVals == Grid(MaxSmall) \cup {<<4, 1>>}

InitMixed == InitState /\ pc = "start"

MixedConstructA ==
  /\ pc = "start"
  /\ \E U \in UnitNames, v \in MixedVals : Construct("a", U, v)
  /\ pc' = "a"

MixedConstructB ==
  /\ pc = "a"
  /\ \E U \in UnitNames, v \in MixedVals :
       /\ UnitDim(U) = UnitDim(origin["a"].unit)
       /\ Construct("b", U, v)
  /\ pc' = "ab"

MixedAdd ==
  /\ pc = "ab"
  /\ Binary("add", "a", "b", "r")
  /\ pc' = "r"

MixedNormalize ==
  /\ pc = "r"
  /\ Normalize("r", origin["a"].unit)
  /\ pc' = "done"

MixedLessThan ==
  /\ pc = "ab"
  /\ LessThan("a", "b")
  /\ pc' = "done"

NextMixed ==
  \/ MixedConstructA \/ MixedConstructB \/ MixedAdd \/ MixedNormalize
  \/ MixedLessThan

SpecMixed == InitMixed /\ [][NextMixed]_vars

(***************************************************************************)
(* SpecDeclare: units.js with two more declarations in its tables, NewUnit *)
(* (one or two components, with or without a scale and an offset) and      *)
(* NewComposite (which lists NewUnit among its components).  The module is *)
(* loaded (Units and Terms are built, units.js:489-500), then Terms are    *)
(* constructed and normalized any number of times.                         *)
(***************************************************************************)
NewComponents ==
  {<<C(u, p)>> : u \in {"Kelvin", "Celsius", "Decimeters"}, p \in {0, 1, 2}}
    \cup {<<C("Kelvin", 0), C("Meters", 0)>>, <<C("Celsius", 0), C("Seconds", -1)>>}
NewUnits ==
  {Derived(c, sc, o) : c \in NewComponents, sc \in {Zero, <<1, 10>>},
                       o \in {Zero, <<32, 1>>}}
NewComposites ==
  {Derived(c, Zero, Zero) :
     c \in {<<C("NewUnit", 0)>>, <<C("Meters", 0), C("NewUnit", -1)>>}}
DeclareNames == {"NewUnit", "NewComposite", "Kelvin", "Celsius"}
DeclareVals == {One, <<20, 1>>}

\* the object literals of the tables, the two new ones included
InitDeclare ==
  /\ \E d \in NewUnits, e \in NewComposites :
       /\ units = [u \in UnitNames \cup {"NewUnit", "NewComposite"} |->
                     IF u = "NewUnit"
                     THEN [components |-> NDerived + 1, scale |-> d.scale,
                           offset |-> d.offset]
                     ELSE IF u = "NewComposite"
                     THEN [components |-> NDerived + 2, scale |-> e.scale,
                           offset |-> e.offset]
                     ELSE InitUnits[u]]
       /\ heap = [InitHeap EXCEPT
                    ![NDerived + 1] = [live |-> TRUE, elems |-> d.components],
                    ![NDerived + 2] = [live |-> TRUE, elems |-> e.components]]
  /\ terms = [s \in Slots |-> NoTerm]
  /\ origin = [s \in Slots |-> NoOrigin]
  /\ out = Outcome("", TRUE, "", "", "", NaN, FALSE)
  /\ pc = "load"

\* const Units = { ... }; for (...) Terms[id] = value => new Term(value, unit):
\* no declaration is looked into and no Term is constructed
DeclareLoad ==
  /\ pc = "load"
  /\ pc' = "ready"
  /\ UNCHANGED <<units, heap, terms, origin, out>>

DeclareConstruct ==
  /\ pc = "ready"
  /\ \E U \in DeclareNames, v \in DeclareVals : Construct("a", U, v)
  /\ pc' = pc

DeclareNormalize ==
  /\ pc = "ready"
  /\ \E T \in DeclareNames : Normalize("a", T)
  /\ pc' = pc

NextDeclare == DeclareLoad \/ DeclareConstruct \/ DeclareNormalize

SpecDeclare == InitDeclare /\ [][NextDeclare]_vars

(***************************************************************************)
(* Properties of construction and normalize (SpecNormalize).               *)
(***************************************************************************)
\* a normalize of the Term built as Terms.U(v), against the same unit U
RoundTrip ==
  /\ out.op = "normalize"
  /\ origin["a"].unit = out.arg
  /\ IsFinite(origin["a"].value)

\* C1 as stated: for every registered unit U, offset unit included, and every
\* finite v, Terms.U(v) is built and Terms.U(v).normalize(Units.U) returns v.
C1_RoundTripEveryUnit ==
  /\ (out.op = "construct" /\ IsFinite(out.num)) => out.ok
  /\ RoundTrip => (out.ok /\ out.num = origin["a"].value)

\* C1 amended: the round trip returns v for every registered unit without an
\* offset; Terms.Celsius(v) is built, but normalizing it against Celsius fails.
C1_RoundTripNoOffset ==
  /\ (out.op = "construct" /\ IsFinite(out.num)) => out.ok
  /\ (RoundTrip /\ ~HasOffset(out.arg)) => (out.ok /\ out.num = origin["a"].value)
  /\ (RoundTrip /\ HasOffset(out.arg)) => ~out.ok

C1_Witness ==
  /\ RoundTrip /\ out.ok
  /\ out.arg = "MolesPerSeawaterKg" /\ out.num = <<1, 2>>
  /\ terms["a"].value = <<1025, 2>>

\* C3 as stated: for every registered target T, normalize returns
\* storedValue / scale(T) when the Term's vector is dimension-equal to the
\* reduced vector of T, and fails otherwise.
C3_NormalizeEveryTarget ==
  out.op = "normalize" =>
    IF DimOf(terms["a"].components) = UnitDim(out.arg)
    THEN out.ok /\ out.num = NumDiv(terms["a"].value, UnitScale(out.arg))
    ELSE ~out.ok

\* C3 amended: the same for every target without an offset; against the
\* offset unit Celsius normalize fails whatever the Term's vector is.
C3_NormalizeNoOffset ==
  out.op = "normalize" =>
    IF ~HasOffset(out.arg) /\ DimOf(terms["a"].components) = UnitDim(out.arg)
    THEN out.ok /\ out.num = NumDiv(terms["a"].value, UnitScale(out.arg))
    ELSE ~out.ok

C3_Witness ==
  /\ out.op = "normalize" /\ out.ok
  /\ origin["a"] = [unit |-> "Liters", value |-> <<2, 1>>]
  /\ out.arg = "SeawaterKg" /\ out.num = <<41, 20>>

\* C4: Terms.Celsius(v) stores v + 273.15 with the vector {Kelvin: 1};
\* Terms.Celsius(0).normalize(Units.Kelvin) is 273.15 and
\* Terms.Celsius(100).normalize(Units.Kelvin) is 373.15.
C4_CelsiusStored ==
  origin["a"].unit = "Celsius" =>
    /\ terms["a"].value = NumAdd(origin["a"].value, CelsiusOffset)
    /\ heap[terms["a"].components].elems = <<C("Kelvin", 1)>>
    /\ (out.op = "normalize" /\ out.arg = "Kelvin") =>
         /\ out.ok
         /\ origin["a"].value = Zero => out.num = <<5463, 20>>
         /\ origin["a"].value = <<100, 1>> => out.num = <<7463, 20>>

C4_Witness ==
  /\ origin["a"] = [unit |-> "Celsius", value |-> <<100, 1>>]
  /\ out.op = "normalize" /\ out.arg = "Kelvin" /\ out.ok
  /\ out.num = <<7463, 20>>

\* C5 as stated: normalizing a Term whose vector is {Kelvin: 1} against
\* Celsius succeeds and returns storedValue - 273.15.
C5_NormalizeToCelsius ==
  (out.op = "normalize" /\ out.arg = "Celsius"
     /\ PairSet(terms["a"].components) = Kelvin1) =>
    (out.ok /\ out.num = NumAdd(terms["a"].value, NumNeg(CelsiusOffset)))

\* C5 amended: the offset is applied by the constructor only; normalize
\* against Celsius fails for every Term, those of vector {Kelvin: 1} included
\* (while normalizing such a Term against Kelvin returns the stored value).
C5_CelsiusOnlyConstructs ==
  /\ (out.op = "normalize" /\ out.arg = "Celsius") => ~out.ok
  /\ (out.op = "normalize" /\ out.arg = "Kelvin"
        /\ PairSet(terms["a"].components) = Kelvin1) =>
       (out.ok /\ out.num = terms["a"].value)

C5_Witness ==
  /\ out.op = "normalize" /\ out.arg = "Celsius" /\ ~out.ok
  /\ origin["a"] = [unit |-> "Kelvin", value |-> <<5463, 20>>]

(***************************************************************************)
(* Properties of the two-operand methods and of sqrt (SpecArith).          *)
(***************************************************************************)
Elems(slot) == heap[terms[slot].components].elems
\* a canonical vector: base units only, none twice, no power 0
Canonical(elems) ==
  /\ \A i \in 1..Len(elems) : elems[i].unit \in BaseDims /\ elems[i].power # 0
  /\ \A i, j \in 1..Len(elems) : elems[i].unit = elems[j].unit => i = j
AllEven(elems) == \A i \in 1..Len(elems) : elems[i].power % 2 = 0
IsNegative(x) == ~IsNaN(x) /\ x[1] < 0

\* C2: for Terms a and b whose vectors are not dimension-equal, a.add(b),
\* a.sub(b) and a.lessThan(b) fail: no Term and no boolean is returned.
C2_MismatchRejected ==
  (out.op \in {"add", "sub", "lessThan"}
     /\ PairSet(terms["a"].components) # PairSet(terms["b"].components)) =>
    (~out.ok /\ terms["r"] = NoTerm /\ pc = "thrown")

C2_Witness ==
  /\ out.op = "add" /\ ~out.ok
  /\ origin["a"].unit = "Meters" /\ origin["b"].unit = "Seconds"

\* C7 as stated: for any Terms a and b, a.mul(b) and a.div(b) return a Term
\* holding the product (the quotient) of the stored values, with the sum (the
\* difference) of the operands' exponents for every base unit, and no base unit
\* of exponent 0 in the result vector.
C7_MulDivAlways ==
  out.op \in {"mul", "div"} =>
    LET a == terms["a"]
        b == terms["b"]
        sign == IF out.op = "mul" THEN 1 ELSE -1
    IN /\ out.ok
       /\ terms["r"].value = IF out.op = "mul" THEN NumMul(a.value, b.value)
                             ELSE NumDiv(a.value, b.value)
       /\ \A d \in BaseDims :
            DimOf(terms["r"].components)[d] =
              DimOf(a.components)[d] + sign * DimOf(b.components)[d]
       /\ Canonical(Elems("r"))

\* C7 amended: mul and div never fail on account of dimensions: a.mul(b) and a.div(b)
\* fail only when the product or quotient of the stored values is NaN, which
\* no Term may hold; otherwise the result holds that product or quotient, every
\* base unit has the sum (for div: the difference) of the operands' exponents,
\* and no base unit of exponent 0 is in the result vector.
C7_MulDivResult ==
  out.op \in {"mul", "div"} =>
    LET a == terms["a"]
        b == terms["b"]
        expected == IF out.op = "mul" THEN NumMul(a.value, b.value)
                    ELSE NumDiv(a.value, b.value)
        sign == IF out.op = "mul" THEN 1 ELSE -1
    IN /\ out.ok <=> ~IsNaN(expected)
       /\ out.ok =>
            /\ terms["r"].value = expected
            /\ \A d \in BaseDims :
                 DimOf(terms["r"].components)[d] =
                   DimOf(a.components)[d] + sign * DimOf(b.components)[d]
            /\ Canonical(Elems("r"))

C7_Witness ==
  /\ out.op = "div" /\ out.ok
  /\ origin["a"] = [unit |-> "Watts", value |-> <<4, 1>>]
  /\ origin["b"] = [unit |-> "Volts", value |-> <<4, 1>>]
  /\ PairSet(terms["r"].components) = {<<"Coulombs", 1>>, <<"Seconds", -1>>}
  /\ terms["r"].value = One

\* C9 as stated: if every exponent of the vector is even, sqrt() returns a
\* Term with the exponents halved and the square root of the stored value; if
\* an exponent is odd, sqrt() fails.
C9_SqrtEvenExponents ==
  out.op = "sqrt" =>
    IF AllEven(Elems("r"))
    THEN /\ out.ok
         /\ terms["s"].value = NumSqrt(terms["r"].value)
         /\ \A d \in BaseDims :
              2 * DimOf(terms["s"].components)[d] = DimOf(terms["r"].components)[d]
    ELSE ~out.ok /\ terms["s"] = NoTerm

\* C9 amended: the same when moreover the stored value is not negative;
\* sqrt() fails if an exponent is odd or the stored value is negative.
C9_SqrtEvenNonNegative ==
  out.op = "sqrt" =>
    IF AllEven(Elems("r")) /\ ~IsNegative(terms["r"].value)
    THEN /\ out.ok
         /\ terms["s"].value = NumSqrt(terms["r"].value)
         /\ \A d \in BaseDims :
              2 * DimOf(terms["s"].components)[d] = DimOf(terms["r"].components)[d]
         /\ Canonical(Elems("s"))
    ELSE ~out.ok /\ terms["s"] = NoTerm

C9_Witness ==
  /\ out.op = "sqrt" /\ out.ok
  /\ PairSet(terms["r"].components) = {<<"Meters", 2>>}
  /\ terms["r"].value = <<16, 1>>
  /\ PairSet(terms["s"].components) = {<<"Meters", 1>>}
  /\ terms["s"].value = <<4, 1>>

(***************************************************************************)
(* Properties of mul/div followed by normalize (SpecCompose).              *)
(***************************************************************************)
\* a.normalize(Units.A), for the unit A the Term in the slot was built from
Plain(slot) == normalize(heap, units, terms[slot], origin[slot].unit).value
Expected(op) ==
  IF op = "mul" THEN NumMul(Plain("a"), Plain("b"))
  ELSE NumDiv(Plain("a"), Plain("b"))
\* T is declared as A*B (op = "mul") or A/B (op = "div"), A and B being the
\* units a and b were built from
Declared(op, T) ==
  \/ op = "mul" /\ DeclaredProduct(T, origin["a"].unit, origin["b"].unit)
  \/ op = "div" /\ DeclaredQuotient(T, origin["a"].unit, origin["b"].unit)

\* C6 as stated: for a built from A, b built from B and a unit T declared as
\* A*B, a.mul(b).normalize(T) is a.normalize(A) * b.normalize(B); for T
\* declared as A/B, a.div(b).normalize(T) is a.normalize(A) / b.normalize(B).
C6_ClosureAlways ==
  /\ (out.op \in {"mul", "div"} /\ \E T \in ComposeTargets : Declared(out.op, T)) =>
       out.ok
  /\ (out.op = "normalize" /\ Declared(pc, out.arg)) =>
       (out.ok /\ out.num = Expected(pc))

\* C6 amended: the same whenever the product (the quotient) of the two values is
\* a number; when it is NaN (0/0), a.mul(b) (a.div(b)) fails and there is
\* nothing to normalize.
C6_ClosureUnlessNaN ==
  /\ (out.op \in {"mul", "div"} /\ \E T \in ComposeTargets : Declared(out.op, T)) =>
       (out.ok <=> ~IsNaN(Expected(out.op)))
  /\ (out.op = "normalize" /\ Declared(pc, out.arg)) =>
       (out.ok /\ out.num = Expected(pc))

C6_Witness ==
  /\ out.op = "normalize" /\ pc = "div" /\ out.arg = "CentimetersPerHour"
  /\ origin["a"] = [unit |-> "Centimeters", value |-> <<10, 1>>]
  /\ origin["b"] = [unit |-> "Hours", value |-> <<2, 1>>]
  /\ out.ok /\ out.num = <<5, 1>>

Scenario(A, B) ==
  /\ origin["a"] = [unit |-> A, value |-> <<10, 1>>]
  /\ origin["b"] = [unit |-> B, value |-> <<2, 1>>]

\* C10 as stated: 10 MetersPerSecond divided by 2 Seconds, normalized against
\* Meters, yields 5.
C10_RateDividedByTime ==
  (Scenario("MetersPerSecond", "Seconds") /\ pc = "div"
     /\ out.op = "normalize" /\ out.arg = "Meters") =>
    (out.ok /\ out.num = <<5, 1>>)

\* C10 amended: 10 MetersPerSecond divided by 2 Seconds is a Term of stored
\* value 5 and vector {Meters: 1, Seconds: -2}, and normalizing it against
\* Meters fails; it is 10 MetersPerSecond multiplied by 2 Seconds that
\* normalizes against Meters, to 20, and 10 Meters divided by 2 Seconds that
\* normalizes against MetersPerSecond, to 5.
C10_RateTimesTime ==
  /\ (Scenario("MetersPerSecond", "Seconds") /\ pc = "div") =>
       /\ terms["r"].value = <<5, 1>>
       /\ PairSet(terms["r"].components) = {<<"Meters", 1>>, <<"Seconds", -2>>}
       /\ (out.op = "normalize" /\ out.arg = "Meters") => ~out.ok
  /\ (Scenario("MetersPerSecond", "Seconds") /\ pc = "mul"
        /\ out.op = "normalize" /\ out.arg = "Meters") =>
       (out.ok /\ out.num = <<20, 1>>)
  /\ (Scenario("Meters", "Seconds") /\ pc = "div"
        /\ out.op = "normalize" /\ out.arg = "MetersPerSecond") =>
       (out.ok /\ out.num = <<5, 1>>)

C10_Witness ==
  /\ Scenario("MetersPerSecond", "Seconds") /\ pc = "div"
  /\ out.op = "normalize" /\ out.arg = "Meters" /\ ~out.ok
  /\ terms["r"].value = <<5, 1>>

(***************************************************************************)
(* Properties of add (SpecAdd): r = a.add(b), s = b.add(a), t = r.add(c),  *)
(* w = b.add(c), x = a.add(w).                                             *)
(***************************************************************************)
\* the two slots hold the same outcome: both calls threw, or both returned a
\* Term, with equal stored values and dimension-equal vectors
Same(x, y) ==
  IF terms[x] = NoTerm \/ terms[y] = NoTerm THEN terms[x] = terms[y]
  ELSE /\ terms[x].value = terms[y].value
       /\ PairSet(terms[x].components) = PairSet(terms[y].components)
\* the slot holds the sum n with the vector of a, or nothing when n is NaN
HoldsSum(x, n) ==
  IF IsNaN(n) THEN terms[x] = NoTerm
  ELSE /\ terms[x] # NoTerm
       /\ terms[x].value = n
       /\ PairSet(terms[x].components) = PairSet(terms["a"].components)

C11_NonFiniteRejected ==
  /\ (out.op = "construct" /\ ~IsFinite(out.num)) =>
       (~out.ok /\ terms["a"] = NoTerm)
  /\ origin["a"] # NoOrigin => IsFinite(terms["a"].value)

\* C11 amended: for every registered unit U, Terms.U(v) fails exactly when v
\* is NaN or not a number; Infinity and -Infinity are accepted and the Term
\* built from them holds Infinity or -Infinity.
C11_NaNRejected ==
  /\ out.op = "construct" =>
       /\ out.ok <=> (TypeofNumber(out.num) /\ ~IsNaN(out.num))
       /\ ~out.ok => terms["a"] = NoTerm
  /\ origin["a"] # NoOrigin =>
       /\ TypeofNumber(terms["a"].value) /\ ~IsNaN(terms["a"].value)
       /\ origin["a"].value \in {PosInf, NegInf} =>
            terms["a"].value = origin["a"].value

C11_Witness ==
  /\ out.op = "construct" /\ out.ok /\ out.arg = "Centimeters"
  /\ out.num = PosInf /\ terms["a"].value = PosInf

\* the declaration of a derived unit of the registry
ComponentsOf(u) == heap[units[u].components].elems
\* an offset with more than one component or with a power other than 1 (a
\* component without a power has power 1)
OffsetMisdeclared(u) ==
  /\ Truthy(units[u].offset)
  /\ Len(ComponentsOf(u)) > 1 \/ ComponentsOf(u)[1].power \notin {0, 1}
\* what the offset branch of Term asserts about the declaration
OffsetAsserted(u) ==
  /\ ~Truthy(units[u].scale)
  /\ Len(ComponentsOf(u)) = 1
  /\ ComponentsOf(u)[1].power = 0
  /\ units[ComponentsOf(u)[1].unit].components = 0

\* C12 as stated: a declaration with an offset and more than one component,
\* or a component power other than 1, is rejected while Units and Terms are
\* built: loading never completes and no Term is constructed after it.
C12_RejectedAtLoad ==
  OffsetMisdeclared("NewUnit") => pc = "load"

\* C12 amended: building Units and Terms rejects nothing; a declaration with an
\* offset is checked each time a Term is constructed from the unit, and the
\* construction fails each time unless the declaration has no scale and exactly
\* one component, a base unit, without a power; normalizing to a unit with an
\* offset always fails.
C12_RejectedAtEveryUse ==
  /\ (out.op = "construct" /\ out.arg = "NewUnit" /\ Truthy(units["NewUnit"].offset)) =>
       (out.ok <=> OffsetAsserted("NewUnit"))
  /\ (out.op = "normalize" /\ Truthy(units[out.arg].offset)) => ~out.ok

C12_Witness ==
  /\ OffsetMisdeclared("NewUnit") /\ pc = "ready"
  /\ out.op = "construct" /\ out.arg = "NewUnit" /\ ~out.ok
  /\ origin["a"].unit = "Kelvin"

RECURSIVE ListsOffset(_)
\* a derived unit with an offset unit among its factors, at any depth
ListsOffset(u) ==
  /\ units[u].components # 0
  /\ \E i \in 1..Len(ComponentsOf(u)) :
       LET f == ComponentsOf(u)[i].unit
       IN IF Truthy(units[f].offset) THEN TRUE ELSE ListsOffset(f)

\* C13: reducing a derived unit that lists an offset unit among its factors,
\* at any depth, fails and produces no scale/vector pair; so do constructing a
\* Term from such a unit and normalizing to it.
C13_OffsetNotComposable ==
  /\ \A u \in {"NewUnit", "NewComposite"} :
       ListsOffset(u) => ~reduceUnit(heap, units, u).ok
  /\ (out.op \in {"construct", "normalize"} /\ ListsOffset(out.arg)) => ~out.ok
  /\ (origin["a"] # NoOrigin) => ~ListsOffset(origin["a"].unit)

C13_Witness ==
  /\ out.op = "construct" /\ out.arg = "NewComposite" /\ ~out.ok
  /\ ~Truthy(units["NewUnit"].offset)
  /\ ComponentsOf("NewUnit") = <<C("Celsius", 0)>>
  /\ ComponentsOf("NewComposite") = <<C("Meters", 0), C("NewUnit", -1)>>

(***************************************************************************)
(* Properties of sequences of calls (SpecOps).                             *)
(***************************************************************************)
PairsOf(elems) == {<<elems[i].unit, elems[i].power>> : i \in 1..Len(elems)}

\* C14: the vector of every Term, constructed or returned by mul, div, cmul,
\* sqrt, add, sub, negate, naturalLogarithm, abs or concentrationH, has no two
\* entries of the same base unit, no entry of exponent 0 and base units only;
\* so has the vector reduceUnit returns for a registered unit (Watts reduces
\* to {Joules: 1, Seconds: -1}).
C14_CanonicalForm ==
  /\ \A s \in Slots : terms[s] # NoTerm => Canonical(Elems(s))
  /\ pc \in {"start", "a", "ab"} =>
       /\ \A u \in UnitNames :
            LET r == reduceUnit(heap, units, u)
            IN r.ok => Canonical(r.h[r.components].elems)
       /\ LET w == reduceUnit(heap, units, "Watts")
          IN /\ w.ok
             /\ PairsOf(w.h[w.components].elems) = {<<"Joules", 1>>, <<"Seconds", -1>>}

C14_Witness ==
  /\ pc = "done" /\ out.op = "mul" /\ out.recv = "r" /\ out.arg = "b"
  /\ origin["a"].unit = "Meters" /\ origin["b"].unit = "Seconds"
  /\ terms["r"] # NoTerm /\ terms["s"] # NoTerm
  /\ PairSet(terms["r"].components) = {<<"Meters", 1>>, <<"Seconds", -1>>}
  /\ PairSet(terms["s"].components) = {<<"Meters", 1>>}
  /\ Len(Elems("s")) = 1

\* C15: no call, whether it returns or throws, changes the stored value or
\* the components vector of a Term: what a variable holds once a Term is
\* assigned to it stays as it is through every later call, although the Terms
\* returned by add and negate share their components array with the receiver.
C15_TermsImmutable ==
  [][\A s \in Slots :
       terms[s] # NoTerm =>
         /\ terms'[s] = terms[s]
         /\ heap'[terms[s].components] = heap[terms[s].components]]_vars

C15_Witness ==
  /\ pc = "done" /\ out.op = "sqrt" /\ out.recv = "r" /\ ~out.ok
  /\ terms["r"] # NoTerm
  /\ origin["a"].unit = "SquareCentimeters" /\ origin["b"].unit = "Seconds"
  /\ Elems("r") = <<C("Meters", 2), C("Seconds", 1)>>

\* C16: no construction and no method changes a unit definition of Units (its
\* components array, the power of a factor, its scale, its offset).
C16_RegistryReadOnly ==
  /\ units = InitUnits
  /\ \A i \in 1..NDerived : heap[i] = InitHeap[i]

C16_Witness ==
  /\ pc = "done" /\ out.op = "normalize" /\ out.arg = "Molarity" /\ out.ok
  /\ origin["a"].unit = "Molarity" /\ origin["b"].unit = "SquareCentimeters"

DimensionlessMethods == {"naturalLogarithm", "abs", "number"}
\* the outcome of naturalLogarithm(), abs() or number() on a Term of empty
\* vector and stored value v
DimensionlessResult(op, v) ==
  CASE op = "number" -> out.ok /\ out.num = v
    [] op = "abs" ->
         /\ out.ok /\ Elems(out.dst) = <<>>
         /\ terms[out.dst].value = NumAbs(v)
    [] op = "naturalLogarithm" ->
         /\ out.ok /\ Elems(out.dst) = <<>>
         /\ terms[out.dst].value = NumLog(v)

\* C17 as stated: naturalLogarithm(), abs() and number() fail on a Term whose
\* vector is not empty; on a Term whose vector is empty naturalLogarithm() and
\* abs() return a Term of empty vector and number() returns the stored value.
C17_DimensionlessOnly ==
  out.op \in DimensionlessMethods =>
    IF Elems(out.recv) = <<>>
    THEN DimensionlessResult(out.op, terms[out.recv].value)
    ELSE ~out.ok

\* C17 amended: the same, except that naturalLogarithm() also fails on a Term
\* of empty vector whose stored value is negative.
C17_DimensionlessNonNegativeLog ==
  out.op \in DimensionlessMethods =>
    IF Elems(out.recv) # <<>> THEN ~out.ok
    ELSE IF out.op = "naturalLogarithm" /\ IsNegative(terms[out.recv].value)
    THEN ~out.ok
    ELSE DimensionlessResult(out.op, terms[out.recv].value)

C17_Witness ==
  /\ out.op = "naturalLogarithm" /\ out.recv = "b" /\ out.ok
  /\ origin["b"] = [unit |-> "Number", value |-> Zero]
  /\ terms["r"].value = NegInf /\ Elems("r") = <<>>

\* C18 as stated: number(), naturalLogarithm() and abs() accept a Term only if
\* Terms.Number constructed it; a Term produced any other way is not accepted,
\* so none is accepted where neither a nor b was constructed by Terms.Number.
C18_OnlyTermsNumber ==
  (out.op \in DimensionlessMethods /\ out.ok) =>
    "Number" \in {origin[out.recv].unit, origin["a"].unit, origin["b"].unit}

\* C18 amended: number(), naturalLogarithm() and abs() accept every Term whose
\* vector is empty, however it was produced: a.div(b) for dimension-equal a and
\* b has the empty vector and is accepted like a Term built by Terms.Number (but
\* for naturalLogarithm() of a negative value); a Term whose vector is not
\* empty is not accepted.
C18_EmptyVectorAccepted ==
  /\ (out.op = "div" /\ out.ok
        /\ PairSet(terms[out.recv].components) = PairSet(terms[out.arg].components)) =>
       Elems(out.dst) = <<>>
  /\ out.op \in DimensionlessMethods =>
       /\ out.ok => Elems(out.recv) = <<>>
       /\ (Elems(out.recv) = <<>>
             /\ ~(out.op = "naturalLogarithm" /\ IsNegative(terms[out.recv].value))) =>
            out.ok

C18_Witness ==
  /\ pc = "done" /\ out.op = "number" /\ out.recv = "r" /\ out.ok
  /\ origin["a"] = [unit |-> "MetersPerSecond", value |-> <<4, 1>>]
  /\ origin["b"] = [unit |-> "MetersPerSecond", value |-> One]
  /\ origin["r"] = NoOrigin /\ out.num = <<4, 1>>

\* C19: concentrationH() on a Term whose vector is exactly {pH: 1} returns the
\* Term Terms.Molarity(10^(-storedValue)), of vector {Moles: 1, Meters: -3};
\* on a Term with any other vector it fails.
C19_ConcentrationH ==
  out.op = "concentrationH" =>
    IF PairSet(terms[out.recv].components) = {<<"pH", 1>>}
    THEN /\ out.ok
         /\ terms[out.dst].value =
              NumMul(NumPow10(NumNeg(terms[out.recv].value)), UnitScale("Molarity"))
         /\ PairSet(terms[out.dst].components) = {<<"Moles", 1>>, <<"Meters", -3>>}
    ELSE ~out.ok /\ terms[out.dst] = NoTerm

C19_Witness ==
  /\ out.op = "concentrationH" /\ out.recv = "a" /\ out.ok
  /\ origin["a"] = [unit |-> "pH", value |-> <<4, 1>>]
  /\ terms["r"].value = <<1, 10>>

(***************************************************************************)
(* Properties of Terms of one dimension built from two units (SpecMixed).  *)
(***************************************************************************)
\* Terms.U2(y).normalize(Units.U1) for b = Terms.U2(y) and a = Terms.U1(x)
InUnitOfA ==
  NumDiv(NumMul(origin["b"].value, UnitScale(origin["b"].unit)),
         UnitScale(origin["a"].unit))

Reduced(r) ==
  [ok |-> r.ok, h |-> r.h, value |-> r.scale, components |-> r.components]

\* dst = reduceUnit(Units.u)
ReduceUnit(dst, u) ==
  Store("reduceUnit", "", u, dst, NaN, NoOrigin,
        Reduced(reduceUnit(heap, units, u)))

InitReduce == InitState /\ pc = "start"

ReduceFirst ==
  /\ pc = "start"
  /\ \E u \in UnitNames : ReduceUnit("r", u)
  /\ pc' = "one"

ReduceSecond ==
  /\ pc = "one"
  /\ \E u \in UnitNames : ReduceUnit("s", u)
  /\ pc' = "two"

NextReduce == ReduceFirst \/ ReduceSecond

SpecReduce == InitReduce /\ [][NextReduce]_vars

(***************************************************************************)
(* Properties of reduceUnit (SpecReduce).                                  *)
(***************************************************************************)
\* the vector the specification gives a registered unit, as a set of pairs
VectorOf(u) == {<<b, UnitDim(u)[b]>> : b \in {d \in BaseDims : UnitDim(u)[d] # 0}}
\* the call reduceUnit(Units.u) returned scale sc and a vector of pairs ps
ReducesTo(u, sc, ps) ==
  (out.op = "reduceUnit" /\ out.arg = u) =>
    /\ out.ok
    /\ terms[out.dst].value = sc
    /\ PairSet(terms[out.dst].components) = ps
    /\ Len(Elems(out.dst)) = Cardinality(ps)
ReducesDerived ==
  /\ \A u \in DerivedNames :
       ~HasOffset(u) => ReducesTo(u, UnitScale(u), VectorOf(u))
  /\ ReducesTo("Liters", <<1, 1000>>, {<<"Meters", 3>>})
  /\ ReducesTo("Molarity", <<1000, 1>>, {<<"Moles", 1>>, <<"Meters", -3>>})

\* C21 as stated: reduceUnit of a base unit, whichever, returns scale 1 and
\* the vector {unit: 1}; of a derived unit without offset, its own scale
\* times the factors' reduced scales raised to their exponents, and the sum
\* of the factors' reduced vectors times their exponents.
C21_ReduceEveryBase ==
  /\ \A u \in BaseNames : ReducesTo(u, One, {<<u, 1>>})
  /\ ReducesDerived

\* C21: reduceUnit of a base unit other than Number returns scale 1 and the
\* vector {unit: 1}, of Number scale 1 and the empty vector; of a derived
\* unit without offset, its own scale (1 if none) times the product of the
\* factors' reduced scales raised to their exponents, and the vector whose
\* exponents are the sums of factor exponent times the exponent in the
\* factor's reduced vector (Liters: 0.001 and {Meters: 3}; Molarity: 1000 and
\* {Moles: 1, Meters: -3}).
C21_ReduceUnit ==
  /\ \A u \in BaseNames \ {"Number"} : ReducesTo(u, One, {<<u, 1>>})
  /\ ReducesTo("Number", One, {})
  /\ ReducesDerived

C21_Witness ==
  /\ pc = "two" /\ out.op = "reduceUnit" /\ out.ok /\ out.arg = "Molarity"
  /\ terms["r"] # NoTerm /\ terms["s"].value = <<1000, 1>>
  /\ Elems("s") = <<C("Moles", 1), C("Meters", -3)>>

(***************************************************************************)
(* SpecMatch: a = Terms.U1(1); b = Terms.U2(1); r = a.mul(b);              *)
(* s = b.mul(a); then x.lessThan(y) for any two of a, b, r and s, which    *)
(* returns when componentsMatch(x.components, y.components) and throws     *)
(* when not.                                                               *)
(***************************************************************************)
MatchSlots == {"a", "b", "r", "s"}

InitMatch == InitState /\ pc = "start"

MatchConstructA ==
  /\ pc = "start"
  /\ \E U \in UnitNames : Construct("a", U, One)
  /\ pc' = "a"

MatchConstructB ==
  /\ pc = "a"
  /\ \E U \in UnitNames : Construct("b", U, One)
  /\ pc' = "ab"

MatchMulAB ==
  /\ pc = "ab"
  /\ Binary("mul", "a", "b", "r")
  /\ pc' = "r"

MatchMulBA ==
  /\ pc = "r"
  /\ Binary("mul", "b", "a", "s")
  /\ pc' = "s"

MatchLessThan ==
  /\ pc = "s"
  /\ \E x, y \in MatchSlots : LessThan(x, y)
  /\ pc' = "done"

NextMatch ==
  \/ MatchConstructA \/ MatchConstructB \/ MatchMulAB \/ MatchMulBA
  \/ MatchLessThan

SpecMatch == InitMatch /\ [][NextMatch]_vars

(***************************************************************************)
(* Properties of componentsMatch (SpecMatch).                              *)
(***************************************************************************)
\* C22: on the (canonical) vectors of any two Terms, componentsMatch is true
\* exactly when the two hold the same set of (base unit, exponent) pairs,
\* in whatever order, and it is symmetric; a dimension-checked call returns
\* exactly then; the vectors of a.mul(b) and b.mul(a) match, although their
\* entries may be stored in different orders.
C22_VectorsMatch ==
  /\ \A x, y \in MatchSlots :
       (terms[x] # NoTerm /\ terms[y] # NoTerm) =>
         /\ Canonical(Elems(x))
         /\ componentsMatch(heap, terms[x].components, terms[y].components)
              <=> PairSet(terms[x].components) = PairSet(terms[y].components)
         /\ componentsMatch(heap, terms[x].components, terms[y].components)
              <=> componentsMatch(heap, terms[y].components, terms[x].components)
  /\ out.op = "lessThan" =>
       (out.ok <=> PairSet(terms[out.recv].components)
                     = PairSet(terms[out.arg].components))
  /\ out.op = "mul" => out.ok
  /\ pc \in {"s", "done"} =>
       componentsMatch(heap, terms["r"].components, terms["s"].components)

C22_Witness ==
  /\ pc = "done" /\ out.op = "lessThan" /\ out.ok
  /\ out.recv = "r" /\ out.arg = "s"
  /\ origin["a"].unit = "MetersPerSecond" /\ origin["b"].unit = "Moles"
  /\ Elems("r") = <<C("Meters", 1), C("Seconds", -1), C("Moles", 1)>>
  /\ Elems("s") = <<C("Moles", 1), C("Meters", 1), C("Seconds", -1)>>

(***************************************************************************)
(* SpecSub: a = Terms.U1(v); b = Terms.U2(w) for units of one dimension;   *)
(* c = a.negate(); r = a.sub(y) for y one of a and b; s = r.add(y).  pc    *)
(* keeps the y that was subtracted.                                        *)
(***************************************************************************)
InitSub == InitState /\ pc = "start"

SubConstructA ==
  /\ pc = "start"
  /\ \E U \in UnitNames, v \in AddVals : Construct("a", U, v)
  /\ pc' = IF out'.ok THEN "made_a" ELSE "thrown"

SubConstructB ==
  /\ pc = "made_a"
  /\ \E U \in UnitNames, v \in AddVals :
       /\ UnitDim(U) = UnitDim(origin["a"].unit)
       /\ Construct("b", U, v)
  /\ pc' = IF out'.ok THEN "made_b" ELSE "thrown"

SubNegate ==
  /\ pc = "made_b"
  /\ Unary("negate", "a", "c")
  /\ pc' = IF out'.ok THEN "negated" ELSE "thrown"

SubSub ==
  /\ pc = "negated"
  /\ \E y \in {"a", "b"} :
       /\ Binary("sub", "a", y, "r")
       /\ pc' = IF out'.ok THEN y ELSE "thrown"

SubAdd ==
  /\ pc \in {"a", "b"}
  /\ Binary("add", "r", pc, "s")
  /\ pc' = IF out'.ok THEN "done" ELSE "thrown"

NextSub == SubConstructA \/ SubConstructB \/ SubNegate \/ SubSub \/ SubAdd

SpecSub == InitSub /\ [][NextSub]_vars

(***************************************************************************)
(* Properties of negate and sub (SpecSub).                                 *)
(***************************************************************************)
\* the Term in slot x has stored value v and the vector of the Term in slot y
Holds(x, v, y) ==
  /\ terms[x].value = v
  /\ PairSet(terms[x].components) = PairSet(terms[y].components)
\* a.value - b.value
Difference(x, y) == NumAdd(terms[x].value, NumNeg(terms[y].value))
NegateFlips ==
  out.op = "negate" =>
    (out.ok /\ Holds(out.dst, NumNeg(terms[out.recv].value), out.recv))

Tables == <<Base, Derived1, Derived2, Derived3, Derived4>>
\* the table a unit is defined in (1 is Base)
TableOf(u) == CHOOSE i \in 1..Len(Tables) : u \in DOMAIN Tables[i]
FactorsOf(u) ==
  {UnitTable[u].components[i].unit : i \in 1..Len(UnitTable[u].components)}

\* C24: Units holds every entry of the five tables (no key is defined
\* twice) and there is a constructor for each; every factor of a derived
\* unit is a unit of an earlier table, so reduceUnit returns or throws for
\* every registered unit (it throws for the offset unit only), and
\* Terms.U(v) returns a Term for every registered U and finite v.
C24_ConstructorsTotal ==
  /\ \A i, j \in 1..Len(Tables) :
       i # j => DOMAIN Tables[i] \cap DOMAIN Tables[j] = {}
  /\ DOMAIN units = UnitNames
  /\ \A u \in DerivedNames :
       \A f \in FactorsOf(u) : f \in UnitNames /\ TableOf(f) < TableOf(u)
  /\ pc = "start" =>
       \A u \in UnitNames : reduceUnit(heap, units, u).ok <=> ~HasOffset(u)
  /\ (out.op = "construct" /\ IsFinite(out.num)) =>
       (out.ok /\ terms[out.dst] # NoTerm /\ origin[out.dst].unit = out.arg)

C24_Witness ==
  /\ out.op = "construct" /\ out.ok /\ out.arg = "MolesPerSeawaterKg"
  /\ out.num = <<-1, 2>>
  /\ terms["a"].value = <<-1025, 2>>
  /\ PairSet(terms["a"].components) = {<<"Moles", 1>>, <<"Meters", -3>>}

(***************************************************************************)
(* Properties of a declaration with an offset (SpecDeclare).               *)
(***************************************************************************)
\* C25: constructing a Term from a unit with an offset (and no scale)
\* succeeds when the unit has a single factor, a base unit, of exponent 1,
\* whether the exponent is written (power: 1) or omitted, and fails when the
\* unit has several factors or a factor of another exponent.
C25_OffsetPrecondition ==
  (/\ out.op = "construct" /\ out.arg = "NewUnit"
   /\ Truthy(units["NewUnit"].offset) /\ ~Truthy(units["NewUnit"].scale)) =>
    /\ (/\ Len(ComponentsOf("NewUnit")) = 1
        /\ units[ComponentsOf("NewUnit")[1].unit].components = 0
        /\ ComponentsOf("NewUnit")[1].power \in {0, 1}) => out.ok
    /\ (\/ Len(ComponentsOf("NewUnit")) > 1
        \/ ComponentsOf("NewUnit")[1].power \notin {0, 1}) => ~out.ok

(***************************************************************************)
(* Properties of the scales of the tables (SpecNormalize).                 *)
(***************************************************************************)
\* Terms.U(v).normalize(Units.T) returned k * v, for every finite v
Converts(U, T, k) ==
  (/\ out.op = "normalize" /\ origin["a"].unit = U /\ out.arg = T
   /\ IsFinite(origin["a"].value)) =>
    (out.ok /\ out.num = NumMul(k, origin["a"].value))

\* C26: the scale of a scaled unit is the number of base units in one such
\* unit: a meter is 100 centimeters, an hour is 3600 seconds
\* (Terms.Hours(1).normalize(Units.Seconds) is 3600), and a centimeter per
\* hour is 1/3600 centimeters per second
\* (Terms.CentimetersPerHour(3600).normalize(Units.CentimetersPerSecond) is 1).
C26_ScalesConsistent ==
  /\ Converts("Meters", "Centimeters", <<100, 1>>)
  /\ Converts("Hours", "Seconds", <<3600, 1>>)
  /\ Converts("CentimetersPerHour", "CentimetersPerSecond", <<1, 3600>>)

(***************************************************************************)
(* Properties of the stored values through sequences of calls (SpecOps).   *)
(***************************************************************************)
\* the number the last call computed for the Term it was to return
Computed ==
  LET x == terms[out.recv].value
      y == IF out.arg = "" THEN NaN ELSE terms[out.arg].value
  IN CASE out.op = "mul" -> NumMul(x, y)
       [] out.op = "div" -> NumDiv(x, y)
       [] out.op = "add" -> NumAdd(x, y)
       [] out.op = "sub" -> NumAdd(x, NumNeg(y))
       [] out.op = "cmul" -> NumMul(x, out.num)
       [] out.op = "sqrt" -> NumSqrt(x)
       [] out.op = "negate" -> NumNeg(x)
       [] out.op = "naturalLogarithm" -> NumLog(x)
       [] out.op = "abs" -> NumAbs(x)
       [] OTHER -> One

\* C27: no Term holds NaN, after any sequence of calls: a call whose result
\* value would be NaN (sqrt or naturalLogarithm of a negative stored value,
\* 0 divided by 0, Infinity minus Infinity, 0 times Infinity) fails and
\* returns no Term.
C27_NoNaNStored ==
  /\ \A s \in Slots :
       terms[s].components # 0 =>
         (TypeofNumber(terms[s].value) /\ ~IsNaN(terms[s].value))
  /\ (out.recv # "" /\ IsNaN(Computed)) => ~out.ok
  /\ (out.op \in {"sqrt", "naturalLogarithm"}
      /\ NumLess(terms[out.recv].value, Zero)) => ~out.ok
  /\ (out.op = "div" /\ terms[out.recv].value = Zero
      /\ terms[out.arg].value = Zero) => ~out.ok
  /\ (out.op = "sub" /\ terms[out.recv].value = PosInf
      /\ terms[out.arg].value = PosInf) => ~out.ok
  /\ (out.op = "mul" /\ terms[out.recv].value = Zero
      /\ terms[out.arg].value \in {PosInf, NegInf}) => ~out.ok

C27_Witness ==
  /\ pc = "done" /\ out.op = "mul" /\ ~out.ok
  /\ out.recv = "b" /\ out.arg = "r"
  /\ origin["a"] = [unit |-> "Meters", value |-> <<4, 1>>]
  /\ origin["b"] = [unit |-> "Meters", value |-> Zero]
  /\ terms["r"].value = PosInf /\ Elems("r") = <<>>
  /\ terms["s"] = NoTerm

\* C28: a.div(z) for a Term z of stored value 0 fails when a's stored value
\* is 0, and otherwise returns a Term whose vector is a's divided by z's and
\* whose stored value is an infinity; so Terms of infinite stored value are
\* reached through div from operands constructed from finite values only.
C28_DivByZero ==
  /\ \A s \in Slots : origin[s] # NoOrigin => IsFinite(origin[s].value)
  /\ (out.op = "div" /\ terms[out.arg].value = Zero) =>
       /\ out.ok <=> terms[out.recv].value # Zero
       /\ out.ok =>
            /\ terms[out.dst].value \in {PosInf, NegInf}
            /\ Canonical(Elems(out.dst))
            /\ \A d \in BaseDims :
                 DimOf(terms[out.dst].components)[d]
                   = DimOf(terms[out.recv].components)[d]
                       - DimOf(terms[out.arg].components)[d]

C28_Witness ==
  /\ pc = "r" /\ out.op = "div" /\ out.ok
  /\ out.recv = "a" /\ out.arg = "b"
  /\ origin["a"] = [unit |-> "MetersPerSecond", value |-> <<-1, 1>>]
  /\ origin["b"] = [unit |-> "Seconds", value |-> Zero]
  /\ terms["r"].value = NegInf
  /\ PairSet(terms["r"].components) = {<<"Meters", 1>>, <<"Seconds", -2>>}

(***************************************************************************)
(* SpecSign: a = Terms.U(v); a.isNegative(), for every registered unit U.  *)
(***************************************************************************)
SignVals == Grid(MaxNum) \cup {<<-274, 1>>, <<-5463, 20>>, PosInf, NegInf}

InitSign == InitState /\ pc = "start"

SignConstruct ==
  /\ pc = "start"
  /\ \E U \in UnitNames, v \in SignVals : Construct("a", U, v)
  /\ pc' = "made"

SignIsNegative ==
  /\ pc = "made"
  /\ IsNegativeCall("a")
  /\ pc' = "done"

NextSign == SignConstruct \/ SignIsNegative

SpecSign == InitSign /\ [][NextSign]_vars

(***************************************************************************)
(* Properties of isNegative (SpecSign).                                    *)
(***************************************************************************)
\* C29: isNegative() returns on a Term of any vector, and returns true
\* exactly when the stored value is less than 0: for Terms.Celsius(v)
\* exactly when v + 273.15 < 0, and for a Term constructed from a unit
\* without offset (every scale of the tables is positive) exactly when the
\* constructing value is negative.
C29_IsNegative ==
  /\ \A u \in UnitNames : NumLess(Zero, UnitScale(u))
  /\ out.op = "isNegative" =>
       /\ out.ok
       /\ out.bool <=> NumLess(terms["a"].value, Zero)
       /\ origin["a"].unit = "Celsius" =>
            (out.bool <=> NumLess(NumAdd(origin["a"].value, CelsiusOffset), Zero))
       /\ ~HasOffset(origin["a"].unit) =>
            (out.bool <=> NumLess(origin["a"].value, Zero))

C29_Witness ==
  /\ pc = "done" /\ out.op = "isNegative" /\ ~out.bool
  /\ origin["a"] = [unit |-> "Celsius", value |-> <<-1, 1>>]
  /\ terms["a"].value = <<5443, 20>>

(***************************************************************************)
(* solveForParameter(start, end, fn): src/migration.js:8-19 on numbers,    *)
(* unnamed/part_002:254-265 on Terms.  The callback fn is an input: its    *)
(* answers follow a sequence chosen beforehand (an answer may depend on    *)
(* how often fn was called), or fn is 1/3 - x in sign.  Of the Term fn     *)
(* returns in the Term version only the stored value is read.  start and   *)
(* end are the variables a and b; a variable that holds a number has no    *)
(* components.  pc is the record of the version that runs, fn, the         *)
(* position, the loop counter i and the number of evaluations of fn.       *)
(***************************************************************************)
Iterations == 30    \* for (var i = 0; i < 30; i++)

\* mutant: the branches of the if are exchanged
Narrow_swapped(start, end, middle, negative) ==
  IF negative THEN [start |-> middle, end |-> end]
  ELSE [start |-> start, end |-> middle]

\* if (value < 0) { end = middle; } else { start = middle; }
Narrow(start, end, middle, negative) ==
  IF negative THEN [start |-> start, end |-> middle]
  ELSE [start |-> middle, end |-> end]

\* (start + end) / 2
Middle(start, end) == NumDiv(NumAdd(start, end), <<2, 1>>)

\* start.add(end).div(Terms.Number(2))
MiddleTerm(h, U, start, end) ==
  LET sum == add(h, U, start, end)
  IN IF ~sum.ok THEN Thrown(sum.h)
     ELSE LET two == Terms(sum.h, U, "Number", <<2, 1>>)
          IN IF ~two.ok THEN Thrown(two.h)
             ELSE div(two.h, U, TermOf(sum), TermOf(two))

Answers == {<<-1, 1>>, Zero, One}
Fns ==
  {[kind |-> "sequence", answers |-> p] :
     p \in [1..1 -> Answers] \cup [1..2 -> Answers] \cup [1..3 -> {<<-1, 1>>, One}]}
    \cup {[kind |-> "root", answers |-> <<>>]}
\* what fn returns for x at its evaluation number k (from 0)
FnValue(fn, x, k) ==
  IF fn.kind = "root"
  THEN (IF x[1] > x[2] \div 3 THEN <<-1, 1>> ELSE One)
  ELSE fn.answers[(k % Len(fn.answers)) + 1]

SolveBounds == {<<-1, 1>>, Zero, One}
SolveUnits == {"pH", "Meters", "Number"}
AsNumber(x) == [value |-> x, components |-> 0]

InitSolve ==
  /\ InitState
  /\ \E version \in {"number", "term"}, fn \in Fns :
       pc = [version |-> version, fn |-> fn, at |-> "call", i |-> 0, evals |-> 0]

\* the call: start and end are bound to the arguments
Enter(start, end, ostart, oend, h) ==
  /\ \E ts \in {[terms EXCEPT !["a"] = start, !["b"] = end]} :
       terms' = ts /\ heap' = Collect(h, units, ts)
  /\ origin' = [origin EXCEPT !["a"] = ostart, !["b"] = oend]
  /\ out' = Outcome("call", TRUE, "", "", "", NaN, FALSE)
  /\ pc' = [pc EXCEPT !.at = "loop"]
  /\ UNCHANGED units

\* solveForParameter(s, e, fn)
SolveCallNumbers ==
  /\ pc.at = "call" /\ pc.version = "number"
  /\ \E s, e \in SolveBounds :
       Enter(AsNumber(s), AsNumber(e), [unit |-> "", value |-> s],
             [unit |-> "", value |-> e], heap)

EnterTerms(ostart, oend, t1, t2) ==
  Enter(TermOf(t1), TermOf(t2), ostart, oend, t2.h)

\* solveForParameter(Terms.U1(s), Terms.U2(e), fn)
SolveCallTerms ==
  /\ pc.at = "call" /\ pc.version = "term"
  /\ \E U1, U2 \in SolveUnits, s, e \in SolveBounds :
       \E t1 \in {Terms(heap, units, U1, s)} :
         \E t2 \in {Terms(t1.h, units, U2, e)} :
           EnterTerms([unit |-> U1, value |-> s], [unit |-> U2, value |-> e],
                      t1, t2)

\* the end of an iteration: one of start and end becomes middle
Assign(n, middle, negative, h) ==
  /\ \E ts \in {[terms EXCEPT !["a"] = n.start, !["b"] = n.end]} :
       terms' = ts /\ heap' = Collect(h, units, ts)
  /\ out' = Outcome("iterate", TRUE, "", "", "", middle.value, negative)
  /\ pc' = [pc EXCEPT !.i = @ + 1, !.evals = @ + 1]
  /\ UNCHANGED <<units, origin>>

\* const value = fn(middle); if (value < 0) ...
IterateNumber(middle) ==
  \E negative \in {NumLess(FnValue(pc.fn, middle.value, pc.evals), Zero)} :
    \E n \in {Narrow(terms["a"], terms["b"], middle, negative)} :
      Assign(n, middle, negative, heap)

SolveIterate ==
  /\ pc.at = "loop" /\ pc.version = "number" /\ pc.i < Iterations
  /\ \E middle \in {AsNumber(Middle(terms["a"].value, terms["b"].value))} :
       IterateNumber(middle)

\* const value = fn(middle); if (value.isNegative()) ...; m is what
\* start.add(end).div(Terms.Number(2)) returned or threw
IterateTerm(m) ==
  IF m.ok
  THEN \E negative \in {isNegative(AsNumber(FnValue(pc.fn, m.value, pc.evals)))} :
         \E n \in {Narrow(terms["a"], terms["b"], TermOf(m), negative)} :
           Assign(n, TermOf(m), negative, m.h)
  ELSE /\ heap' = Collect(m.h, units, terms)
       /\ out' = Outcome("iterate", FALSE, "", "", "", NaN, FALSE)
       /\ pc' = [pc EXCEPT !.at = "thrown"]
       /\ UNCHANGED <<units, terms, origin>>

SolveIterateTerm ==
  /\ pc.at = "loop" /\ pc.version = "term" /\ pc.i < Iterations
  /\ \E m \in {MiddleTerm(heap, units, terms["a"], terms["b"])} :
       IterateTerm(m)

\* return start
SolveReturn ==
  /\ pc.at = "loop" /\ pc.i = Iterations
  /\ out' = Outcome("return", TRUE, "a", "", "", terms["a"].value, FALSE)
  /\ pc' = [pc EXCEPT !.at = "returned"]
  /\ UNCHANGED <<units, heap, terms, origin>>

NextSolve ==
  \/ SolveCallNumbers \/ SolveCallTerms \/ SolveIterate \/ SolveIterateTerm
  \/ SolveReturn

\* Control inside the call moves on: the call is entered, an iteration ends
\* (i++) or throws, or the function returns.  Every step of NextSolve is
\* such a step, and one of them is possible wherever pc.at is "call" or
\* "loop".
SolveRuns ==
  /\ pc.at \in {"call", "loop"}
  /\ pc' \in {[pc EXCEPT !.at = at, !.i = i, !.evals = i] :
               at \in {"loop", "thrown", "returned"}, i \in {pc.i, pc.i + 1}}

\* a call that has begun runs to completion: JavaScript does not suspend a
\* synchronous function, so the loop is never left waiting
SpecSolve == InitSolve /\ [][NextSolve]_vars /\ WF_pc(SolveRuns)

(***************************************************************************)
(* Properties of solveForParameter (SpecSolve).                            *)
(***************************************************************************)
Leq(x, y) == ~NumLess(y, x)
\* the Terms passed as start and end are dimension-equal
SameDimension == UnitDim(origin["a"].unit) = UnitDim(origin["b"].unit)
InLoop == pc.at \in {"loop", "returned"}

SolveInvariant ==
  /\ pc.evals = pc.i /\ pc.i <= Iterations
  /\ pc.at = "returned" =>
       (pc.evals = Iterations /\ out.num = terms["a"].value)
  /\ (InLoop /\ Leq(origin["a"].value, origin["b"].value)) =>
       /\ Leq(terms["a"].value, terms["b"].value)
       /\ Leq(origin["a"].value, terms["a"].value)
       /\ Leq(terms["b"].value, origin["b"].value)
  /\ pc.at = "thrown" =>
       (pc.version = "term" /\ pc.evals = 0 /\ ~SameDimension)
  /\ (InLoop /\ pc.version = "term" /\ ~SameDimension) =>
       (pc.at = "loop" /\ pc.i = 0)

\* an iteration that completes
SolveStep ==
  (pc.at = "loop" /\ pc'.at = "loop" /\ pc'.i # pc.i) =>
    /\ pc'.i = pc.i + 1 /\ pc'.evals = pc.evals + 1
    /\ out'.num = Middle(terms["a"].value, terms["b"].value)
    /\ out'.bool <=> NumLess(FnValue(pc.fn, out'.num, pc.evals), Zero)
    /\ IF out'.bool
       THEN terms'["b"].value = out'.num /\ terms'["a"] = terms["a"]
       ELSE terms'["a"].value = out'.num /\ terms'["b"] = terms["b"]
    /\ pc.version = "term" =>
         /\ PairsOf(heap'[terms'["a"].components].elems) = PairSet(terms["a"].components)
         /\ PairsOf(heap'[terms'["b"].components].elems) = PairSet(terms["b"].components)

=============================================================================
